---- MODULE Spec2Model ----
(***************************************************************************)
(* Correlation and aggregation pipeline of the observability summarizer:   *)
(*   core/korrel8r_service.py  goal resolution, query execution, trace     *)
(*                             detail fan-out, span simplification          *)
(*   core/metrics.py           log filtering, ranking and context assembly *)
(*                                                                         *)
(* Python values are encoded as records tagged by k:                       *)
(*   None [k |-> "none"], str [k |-> "str", s |-> <<chars>>],              *)
(*   bool [k |-> "bool", b], int [k |-> "int", n],                         *)
(*   list [k |-> "list", items |-> <<...>>],                               *)
(*   dict [k |-> "dict", d |-> function from key to value].                *)
(* Text that the code inspects or builds is a sequence of one-character    *)
(* strings, so that lower(), strip(), split(), "in" and f-strings are      *)
(* computed and not assumed.                                               *)
(***************************************************************************)
EXTENDS Integers, Sequences, FiniteSets, TLC

(***************************************************************************)
(* Text                                                                    *)
(***************************************************************************)

\* The string literals of the source and of the modelled inputs.
STR ==
  [ empty       |-> << >>,
    trace       |-> <<"t","r","a","c","e">>,
    log         |-> <<"l","o","g">>,
    trace_span  |-> <<"t","r","a","c","e",":","s","p","a","n">>,
    Trace_span  |-> <<" ","T","r","a","c","e"," ",":","s","p","a","n">>,
    log_application |-> <<"l","o","g",":","a","p","p","l","i","c","a","t","i","o","n">>,
    log_infrastructure |-> <<"l","o","g",":","i","n","f","r","a","s","t","r","u","c","t","u","r","e">>,
    metric_foo  |-> <<"m","e","t","r","i","c",":","f","o","o">>,
    tracer_x    |-> <<"t","r","a","c","e","r",":","x">>,
    error       |-> <<"e","r","r","o","r">>,
    exception   |-> <<"e","x","c","e","p","t","i","o","n">>,
    fatal       |-> <<"f","a","t","a","l">>,
    panic       |-> <<"p","a","n","i","c">>,
    fail        |-> <<"f","a","i","l">>,
    critical    |-> <<"c","r","i","t","i","c","a","l">>,
    true        |-> <<"t","r","u","e">>,
    false       |-> <<"f","a","l","s","e">>,
    True        |-> <<"T","r","u","e">>,
    False       |-> <<"F","a","l","s","e">>,
    None        |-> <<"N","o","n","e">>,
    null        |-> <<"n","u","l","l">>,
    yes         |-> <<"y","e","s">>,
    one         |-> <<"1">>,
    two         |-> <<"2">>,
    ok          |-> <<"o","k">>,
    ERROR       |-> <<"E","R","R","O","R">>,
    Error       |-> <<"E","r","r","o","r">>,
    WARN        |-> <<"W","A","R","N">>,
    WARNING     |-> <<"W","A","R","N","I","N","G">>,
    FATAL       |-> <<"F","A","T","A","L">>,
    CRITICAL    |-> <<"C","R","I","T","I","C","A","L">>,
    INFO        |-> <<"I","N","F","O">>,
    DEBUG       |-> <<"D","E","B","U","G">>,
    TRACE       |-> <<"T","R","A","C","E">>,
    UNKNOWN     |-> <<"U","N","K","N","O","W","N">>,
    NOTICE      |-> <<"N","O","T","I","C","E">>,
    otel_status |-> <<"o","t","e","l",".","s","t","a","t","u","s","_","c","o","d","e">>,
    status_code |-> <<"s","t","a","t","u","s",".","c","o","d","e">>,
    span_status |-> <<"s","p","a","n",".","s","t","a","t","u","s",".","c","o","d","e">>,
    status_code_error |-> <<"s","t","a","t","u","s","_","c","o","d","e","_","e","r","r","o","r">>,
    http_status |-> <<"h","t","t","p",".","s","t","a","t","u","s">>,
    event       |-> <<"e","v","e","n","t">>,
    OOM         |-> <<"O","O","M">>,
    slow        |-> <<"s","l","o","w"," ","o","p">>,
    prod        |-> <<"p","r","o","d">>,
    dev         |-> <<"d","e","v">>,
    svc1        |-> <<"s","v","c","-","1">>,
    svc2        |-> <<"s","v","c","-","2">>,
    NullPointerException |-> <<"N","u","l","l","P","o","i","n","t","e","r",
                               "E","x","c","e","p","t","i","o","n">>,
    connection_failed |-> <<"c","o","n","n","e","c","t","i","o","n"," ","f","a","i","l","e","d">>,
    s2          |-> <<"s","2">>,
    s3          |-> <<"s","3">>,
    s4          |-> <<"s","4">>,
    s5          |-> <<"s","5">>,
    s6          |-> <<"s","6">>,
    blank       |-> <<" "," ">>,
    KORREL8R_DISABLED |-> <<"K","O","R","R","E","L","8","R","_","D","I","S","A","B","L","E","D">>,
    KORREL8R_REQUEST_FAILED |-> <<"K","O","R","R","E","L","8","R","_","R","E","Q","U","E","S","T","_",
                                  "F","A","I","L","E","D">>,
    feature_disabled |-> <<"K","o","r","r","e","l","8","r"," ","f","e","a","t","u","r","e"," ",
                           "d","i","s","a","b","l","e","d">>,
    abc123      |-> <<"a","b","c","1","2","3">>,
    def456      |-> <<"d","e","f","4","5","6">>,
    ghi789      |-> <<"g","h","i","7","8","9">>,
    s1          |-> <<"s","1">>,
    GET         |-> <<"G","E","T">>,
    q_log       |-> <<"q","l">>,
    q_log2      |-> <<"q","m">>,
    q_trace     |-> <<"q","t">>,
    q_trace2    |-> <<"q","u">>,
    traceID     |-> <<"t","r","a","c","e","I","D">>,
    spanID      |-> <<"s","p","a","n","I","D">>,
    operationName |-> <<"o","p","e","r","a","t","i","o","n","N","a","m","e">>,
    startTime   |-> <<"s","t","a","r","t","T","i","m","e">>,
    duration    |-> <<"d","u","r","a","t","i","o","n">>,
    namespace   |-> <<"n","a","m","e","s","p","a","c","e">>,
    pod         |-> <<"p","o","d">>,
    id          |-> <<"i","d">>,
    message     |-> <<"m","e","s","s","a","g","e">>,
    level       |-> <<"l","e","v","e","l">>,
    dash_trace  |-> <<"-"," ","t","r","a","c","e">>,
    dash_ns     |-> <<"-"," ","n","a","m","e","s","p","a","c","e","=">>,
    sp_pod      |-> <<" ","p","o","d","=">>,
    sp_level    |-> <<" ","l","e","v","e","l","=">>,
    k8s_pod_open |-> <<"k","8","s",":","P","o","d",".","v","1",":","{",
                       "\"","n","a","m","e","s","p","a","c","e","\"",":","\"">>,
    k8s_name    |-> <<"\"",",","\"","n","a","m","e","\"",":","\"">>,
    k8s_close   |-> <<"\"","}">>,
    injected    |-> <<"-"," ","n","a","m","e","s","p","a","c","e","=","d","e","v",
                      " ","p","o","d","=","l","l","a","m","a","-","3","-","2","-","3","b",
                      "-","i","n","s","t","r","u","c","t","-","p","r","e","d","i","c","t","o","r",
                      "-","6","4","9","4","6","9","c","d","6","8","-","8","z","n","4","9",
                      " ","l","e","v","e","l","=","E","R","R","O","R",
                      " ","S","e","r","v","e","r"," ","r","u","n","n","i","n","g",
                      " ","o","u","t"," ","o","f"," ","m","e","m","o","r","y">>,
    utc_offset  |-> <<"+","0","0",":","0","0">>,
    epoch       |-> <<"1","9","7","0","-","0","1","-","0","1","T","0","0",":","0","0",":","0","0">>,
    ts_aware    |-> <<"2","0","2","4","-","0","1","-","0","1","T","0","0",":","0","0",":","0","2","Z">>,
    ts_naive    |-> <<"2","0","2","4","-","0","1","-","0","1","T","0","0",":","0","0",":","0","1",".","5","0","0">>,
    ts_offset   |-> <<"2","0","2","4","-","0","1","-","0","1","T","0","1",":","0","0",":","0","1",
                      "+","0","1",":","0","0">>,
    minus_one   |-> <<"-","1">>,
    x           |-> <<"x">>,
    error_true  |-> <<"e","r","r","o","r","=","t","r","u","e">>,
    trace_abc   |-> <<"-"," ","t","r","a","c","e"," ","t","r","a","c","e","I","D","=","a","b","c","1","2","3">>,
    oom_line_dev |-> <<"-"," ","n","a","m","e","s","p","a","c","e","=","d","e","v"," ","p","o","d","=",
                       " ","l","e","v","e","l","=","E","R","R","O","R"," ","O","O","M">>,
    trace_def   |-> <<"-"," ","t","r","a","c","e"," ","t","r","a","c","e","I","D","=","d","e","f","4","5","6">>,
    truncated   |-> <<"\n",".",".","."," ","[","R","e","s","u","l","t"," ","t","r","u","n","c","a","t","e","d"," ","d","u","e"," ","t","o"," ","s","i","z","e","]">>,
    fence       |-> <<"~","~","~">>,
    fenced_ok   |-> <<"~","~","~","\n","o","k","\n","~","~","~">>,
    incomplete  |-> <<"A","n","a","l","y","s","i","s"," ","i","n","c","o","m","p","l","e","t","e","."," ","P","l","e","a","s","e"," ","t","r","y"," ","a"," ","m","o","r","e"," ","s","p","e","c","i","f","i","c"," ","q","u","e","s","t","i","o","n",".">>,
    err_sdk     |-> <<"E","r","r","o","r",":"," ","S","D","K"," ","n","o","t"," ","i","n","s","t","a","l","l","e","d">>,
    err_api_key |-> <<"A","P","I"," ","k","e","y"," ","r","e","q","u","i","r","e","d">>,
    err_tool_calling |-> <<"E","r","r","o","r"," ","d","u","r","i","n","g"," ","t","o","o","l"," ","c","a","l","l","i","n","g">>,
    err_gemini  |-> <<"E","r","r","o","r"," ","c","o","m","m","u","n","i","c","a","t","i","n","g"," ","w","i","t","h"," ","G","e","m","i","n","i">>,
    err_no_candidates |-> <<"E","r","r","o","r",":"," ","N","o"," ","r","e","s","p","o","n","s","e"," ","c","a","n","d","i","d","a","t","e","s"," ","f","r","o","m"," ","G","o","o","g","l","e"," ","G","e","m","i","n","i">>,
    err_no_text |-> <<"E","r","r","o","r",":"," ","M","o","d","e","l"," ","c","o","m","p","l","e","t","e","d"," ","b","u","t"," ","r","e","t","u","r","n","e","d"," ","n","o"," ","t","e","x","t"," ","r","e","s","p","o","n","s","e">>,
    oom_line    |-> <<"-"," ","n","a","m","e","s","p","a","c","e","=","p","r","o","d"," ","p","o","d","=",
                      "s","v","c","-","1"," ","l","e","v","e","l","=","E","R","R","O","R"," ","O","O","M">> ]

\* The characters of the model in ascending code point order (Python compares
\* strings by code point).
CharOrder ==
  << "\n", " ", "\"", "-", ".", "0", "1", "2", "3", "4", "5", "6", "7", "8", "9",
     ":", "=", "A", "B", "C", "D", "E", "F", "G", "H", "I", "J", "K", "L", "M",
     "N", "O", "P", "Q", "R", "S", "T", "U", "V", "W", "X", "Y", "Z", "\\", "_",
     "a", "b", "c", "d", "e", "f", "g", "h", "i", "j", "k", "l", "m", "n", "o",
     "p", "q", "r", "s", "t", "u", "v", "w", "x", "y", "z", "{", "}" >>

Ord(c) == CHOOSE i \in 1..Len(CharOrder) : CharOrder[i] = c

UpperChars == <<"A","B","C","D","E","F","G","H","I","J","K","L","M",
                "N","O","P","Q","R","S","T","U","V","W","X","Y","Z">>
LowerChars == <<"a","b","c","d","e","f","g","h","i","j","k","l","m",
                "n","o","p","q","r","s","t","u","v","w","x","y","z">>

\* str.lower() and str.upper(), one character.
LowerChar(c) ==
  IF \E i \in 1..26 : UpperChars[i] = c
  THEN LowerChars[CHOOSE i \in 1..26 : UpperChars[i] = c]
  ELSE c

UpperChar(c) ==
  IF \E i \in 1..26 : LowerChars[i] = c
  THEN UpperChars[CHOOSE i \in 1..26 : LowerChars[i] = c]
  ELSE c

Lower(s) == [i \in 1..Len(s) |-> LowerChar(s[i])]
Upper(s) == [i \in 1..Len(s) |-> UpperChar(s[i])]

\* c.isspace()
IsSpace(c) == c \in {" ", "\n"}

\* str.strip(): leading and trailing whitespace removed.
Strip(s) ==
  LET keep == {i \in 1..Len(s) : ~IsSpace(s[i])}
  IN  IF keep = {} THEN << >>
      ELSE LET lo == CHOOSE i \in keep : \A j \in keep : i <= j
               hi == CHOOSE i \in keep : \A j \in keep : j <= i
           IN  SubSeq(s, lo, hi)

\* c in s, for one character c.
HasChar(s, c) == \E i \in 1..Len(s) : s[i] = c

\* sub in s (substring test).
Contains(sub, s) ==
  \E i \in 0..(Len(s) - Len(sub)) : SubSeq(s, i + 1, i + Len(sub)) = sub

\* s.split(c, 1)[0]: the text before the first c (all of s when c is absent).
BeforeFirst(s, c) ==
  IF HasChar(s, c)
  THEN SubSeq(s, 1, (CHOOSE i \in 1..Len(s) : s[i] = c /\ \A j \in 1..(i-1) : s[j] # c) - 1)
  ELSE s

\* a < b for strings (code point order, a proper prefix first).
StrLess(a, b) ==
  \E i \in 1..(Len(b)) :
     /\ \A j \in 1..(i-1) : j <= Len(a) /\ a[j] = b[j]
     /\ i - 1 <= Len(a)
     /\ (i > Len(a) \/ Ord(a[i]) < Ord(b[i]))

\* sep.join(parts)
RECURSIVE Join(_, _)
Join(sep, parts) ==
  IF parts = << >> THEN << >>
  ELSE IF Len(parts) = 1 THEN parts[1]
  ELSE parts[1] \o sep \o Join(sep, Tail(parts))

\* s.replace(c, r) for one character c.
RECURSIVE ReplaceChar(_, _, _)
ReplaceChar(s, c, r) ==
  IF s = << >> THEN << >>
  ELSE (IF Head(s) = c THEN r ELSE <<Head(s)>>) \o ReplaceChar(Tail(s), c, r)

\* The lines of a text (text.split("\n")), none for the empty text.
RECURSIVE Lines(_)
Lines(s) ==
  IF s = << >> THEN << >>
  ELSE IF HasChar(s, "\n")
       THEN LET i == CHOOSE i \in 1..Len(s) : s[i] = "\n" /\ \A j \in 1..(i-1) : s[j] # "\n"
            IN  <<SubSeq(s, 1, i - 1)>> \o Lines(SubSeq(s, i + 1, Len(s)))
       ELSE <<s>>

\* s.startswith(p)
StartsWith(s, p) == Len(p) <= Len(s) /\ SubSeq(s, 1, Len(p)) = p

(***************************************************************************)
(* Python values                                                           *)
(***************************************************************************)

None == [k |-> "none"]
PStr(s) == [k |-> "str", s |-> s]
PBool(b) == [k |-> "bool", b |-> b]
PInt(n) == [k |-> "int", n |-> n]
PList(items) == [k |-> "list", items |-> items]
PDict(f) == [k |-> "dict", d |-> f]

IsStr(v) == v.k = "str"
IsList(v) == v.k = "list"
IsDict(v) == v.k = "dict"

\* bool(v)
Truthy(v) ==
  CASE v.k = "none" -> FALSE
    [] v.k = "str"  -> v.s # << >>
    [] v.k = "bool" -> v.b
    [] v.k = "int"  -> v.n # 0
    [] v.k = "list" -> v.items # << >>
    [] v.k = "dict" -> DOMAIN v.d # {}

\* a or b
Or(a, b) == IF Truthy(a) THEN a ELSE b

\* d.get(key), None when the key is absent.
Get(v, key) == IF key \in DOMAIN v.d THEN v.d[key] ELSE None

\* d.get(key, default)
GetOr(v, key, default) == IF key \in DOMAIN v.d THEN v.d[key] ELSE default

Digits == <<"0","1","2","3","4","5","6","7","8","9">>

\* str(n) for a small natural number.
RECURSIVE IntStr(_)
IntStr(n) == IF n < 10 THEN <<Digits[n + 1]>> ELSE IntStr(n \div 10) \o <<Digits[(n % 10) + 1]>>

\* str(v) for the scalar values of the model.
StrOf(v) ==
  CASE v.k = "none" -> STR.None
    [] v.k = "str"  -> v.s
    [] v.k = "bool" -> IF v.b THEN STR.True ELSE STR.False
    [] v.k = "int"  -> IntStr(v.n)
    [] OTHER        -> <<"{","}">>

\* x in seq
InSeq(x, seq) == \E i \in 1..Len(seq) : seq[i] = x

\* Iterating v in a for loop raises TypeError unless v is a list, a dict or a str.
Iterable(v) == v.k \in {"list", "dict", "str"}

\* The dict elements met when iterating v: the keys of a dict and the characters
\* of a str are strings and fail every isinstance(x, dict) test.
DictItems(v) == IF IsList(v) THEN SelectSeq(v.items, IsDict) ELSE << >>

(***************************************************************************)
(* core/korrel8r_service.py: pure helpers                                  *)
(***************************************************************************)

\* The items _extract_unique_trace_ids scans: the dicts of a list, the dicts of
\* a dict's list-valued data, else the dict itself; nothing for other values.
TraceIdItems(obj_result) ==
  IF IsList(obj_result) THEN SelectSeq(obj_result.items, IsDict)
  ELSE IF IsDict(obj_result)
       THEN LET data == Get(obj_result, "data")
            IN  IF IsList(data) THEN SelectSeq(data.items, IsDict) ELSE <<obj_result>>
       ELSE << >>

\* The trace ID of one item with the top-level fields read before the context.
ItemTraceIdTopFirst(it) ==
  LET context == Get(it, "context")
      top == Or(Or(Get(it, "traceID"), Get(it, "traceId")), Get(it, "id"))
  IN  IF ~Truthy(top) /\ IsDict(context)
      THEN Or(Get(context, "traceID"), Get(context, "traceId"))
      ELSE top

\* The trace ID of one item: context.traceID, context.traceId, traceID, traceId, id.
ItemTraceId(it) ==
  LET context == Get(it, "context")
      fromCtx == IF IsDict(context)
                 THEN Or(Get(context, "traceID"), Get(context, "traceId"))
                 ELSE None
  IN  IF ~Truthy(fromCtx)
      THEN Or(Or(Get(it, "traceID"), Get(it, "traceId")), Get(it, "id"))
      ELSE fromCtx

RECURSIVE UniqueTraceIds(_, _)
UniqueTraceIds(items, trace_ids) ==
  IF items = << >> THEN trace_ids
  ELSE LET trace_id == ItemTraceId(Head(items))
       IN  UniqueTraceIds(Tail(items),
             IF IsStr(trace_id) /\ Truthy(trace_id) /\ ~InSeq(trace_id.s, trace_ids)
             THEN Append(trace_ids, trace_id.s)
             ELSE trace_ids)

\* _extract_unique_trace_ids(obj_result)
ExtractUniqueTraceIds(obj_result) == UniqueTraceIds(TraceIdItems(obj_result), << >>)

\* keywords of _trace_detail_contains_error
DetailKeywords == {STR.error, STR.exception, STR.fatal, STR.panic, STR.fail}

\* keywords of _simplify_trace_detail_to_error_spans and _span_is_error_like
SpanKeywords == DetailKeywords \cup {STR.critical}

AnyIn(words, s) == \E w \in words : Contains(w, s)

\* One tag of a span, as _trace_detail_contains_error reads it.
TagSignalsError(tg) ==
  LET key == Lower(StrOf(GetOr(tg, "key", PStr(STR.empty))))
      val == Lower(StrOf(GetOr(tg, "value", PStr(STR.empty))))
  IN  \/ /\ key \in {STR.error, STR.otel_status, STR.status_code, STR.span_status}
         /\ val \in {STR.true, STR.one, STR.error}
      \/ /\ AnyIn(DetailKeywords, key)
         /\ AnyIn(DetailKeywords \cup {STR.true, STR.one}, val)

\* One field of a span log event.
FieldSignalsError(f) ==
  LET fkey == Lower(StrOf(GetOr(f, "key", PStr(STR.empty))))
      fval == Lower(StrOf(GetOr(f, "value", PStr(STR.empty))))
  IN  \/ (fkey = STR.event /\ fval \in {STR.exception, STR.error, STR.fatal})
      \/ AnyIn(DetailKeywords, fkey)
      \/ AnyIn(DetailKeywords, fval)

\* One span: its tags, then the fields of its log events.
SpanSignalsError(sp) ==
  LET tags == Or(Get(sp, "tags"), PList(<< >>))
      logs == Or(Get(sp, "logs"), PList(<< >>))
  IN  \/ \E i \in 1..Len(DictItems(tags)) : TagSignalsError(DictItems(tags)[i])
      \/ \E i \in 1..Len(DictItems(logs)) :
            LET fields == Or(Get(DictItems(logs)[i], "fields"), PList(<< >>))
            IN  \E j \in 1..Len(DictItems(fields)) : FieldSignalsError(DictItems(fields)[j])

\* The scan over trace.data: "T" at the first span that signals an error, "X" when
\* iterating the spans of a trace raises before that, "N" when the scan ends.
RECURSIVE ScanTraces(_)
ScanTraces(data) ==
  IF data = << >> THEN "N"
  ELSE LET tr == Head(data)
           spans == Or(Get(tr, "spans"), PList(<< >>))
       IN  IF ~Iterable(spans) THEN "X"
           ELSE IF \E i \in 1..Len(DictItems(spans)) : SpanSignalsError(DictItems(spans)[i])
                THEN "T"
                ELSE ScanTraces(Tail(data))

\* _trace_detail_contains_error(detail)
TraceDetailContainsError(detail) ==
  IF ~IsDict(detail) \/ ~Truthy(Get(detail, "success")) THEN FALSE
  ELSE LET trace_payload == Or(Get(detail, "trace"), PDict(<< >>))
       IN  IF ~IsDict(trace_payload) THEN FALSE
           ELSE IF Truthy(Get(trace_payload, "errors")) THEN TRUE
           ELSE LET data == Or(Get(trace_payload, "data"), PList(<< >>))
                IN  IF ~IsList(data) THEN FALSE
                    ELSE ScanTraces(DictItems(data)) = "T"

\* d[key] = val on a dict held as a function.
DictPut(f, key, val) == [x \in (DOMAIN f) \cup {key} |-> IF x = key THEN val ELSE f[x]]

\* The related objects that may carry a span context: the dicts of a list or of a
\* dict's list-valued data (a single dict carries none).
SpanCtxItems(related_objects) ==
  IF IsList(related_objects) THEN SelectSeq(related_objects.items, IsDict)
  ELSE IF IsDict(related_objects)
       THEN LET data == Get(related_objects, "data")
            IN  IF IsList(data) THEN SelectSeq(data.items, IsDict) ELSE << >>
       ELSE << >>

\* spanID -> (namespace, pod) of the related objects; a later object replaces an
\* earlier one with the same span ID.
RECURSIVE SpanCtxIndex(_, _)
SpanCtxIndex(items, index) ==
  IF items = << >> THEN index
  ELSE LET it == Head(items)
           ctx0 == Get(it, "context")
           ctx == IF IsDict(ctx0) THEN ctx0 ELSE PDict(<< >>)
           span_id == Or(Or(Or(Get(ctx, "spanID"), Get(ctx, "spanId")),
                            Get(it, "spanID")), Get(it, "spanId"))
           attrs0 == Get(it, "attributes")
           attrs == IF IsDict(attrs0) THEN attrs0 ELSE PDict(<< >>)
           ns == Or(Or(Or(Get(attrs, "k8s.namespace.name"),
                          Get(attrs, "kubernetes.namespace_name")),
                       Get(attrs, "namespace")), PStr(STR.empty))
           pod == Or(Or(Or(Or(Get(attrs, "k8s.pod.name"),
                              Get(attrs, "kubernetes.pod_name")),
                           Get(attrs, "pod")),
                        Get(attrs, "service.name")), PStr(STR.empty))
       IN  SpanCtxIndex(Tail(items),
             IF ~IsStr(span_id) \/ ~Truthy(span_id) THEN index
             ELSE DictPut(index, span_id.s,
                          [namespace |-> StrOf(ns), pod |-> StrOf(pod)]))

\* Every tag of one span, as a dict.
RECURSIVE FilteredTagsKeepAll(_, _)
FilteredTagsKeepAll(tags, filtered_tags) ==
  IF tags = << >> THEN filtered_tags
  ELSE FilteredTagsKeepAll(Tail(tags),
         DictPut(filtered_tags, StrOf(Get(Head(tags), "key")), Get(Head(tags), "value")))

\* The tags of one span whose value contains an error-like keyword, as a dict.
RECURSIVE FilteredTags(_, _)
FilteredTags(tags, filtered_tags) ==
  IF tags = << >> THEN filtered_tags
  ELSE LET tg == Head(tags)
           key == Get(tg, "key")
           val == Get(tg, "value")
           val_str == Lower(StrOf(val))
       IN  FilteredTags(Tail(tags),
             IF AnyIn(SpanKeywords, val_str)
             THEN DictPut(filtered_tags, StrOf(key), val)
             ELSE filtered_tags)

\* The simplified span of one raw span, enriched from the span context index.
OneSpan(trace_id, sp, filtered_tags, span_ctx_index) ==
  LET span_id == Or(Get(sp, "spanID"), Get(sp, "spanId"))
      base == [traceID |-> trace_id,
               spanID |-> span_id,
               operationName |-> Or(Get(sp, "operationName"), Get(sp, "operation")),
               startTime |-> Get(sp, "startTime"),
               duration |-> Get(sp, "duration"),
               tags |-> PDict(filtered_tags)]
      sid == StrOf(Or(span_id, PStr(STR.empty)))
      known == sid \in DOMAIN span_ctx_index
      withNs == IF known /\ span_ctx_index[sid].namespace # << >>
                THEN ("namespace" :> PStr(span_ctx_index[sid].namespace)) @@ base
                ELSE base
      withPod == IF known /\ span_ctx_index[sid].pod # << >>
                 THEN ("pod" :> PStr(span_ctx_index[sid].pod)) @@ withNs
                 ELSE withNs
  IN  PDict(withPod)

\* The simplified spans of the raw spans of one trace: a span whose tags are not
\* a list, or that keeps no tag, is skipped.
RECURSIVE SpansOfTrace(_, _, _)
SpansOfTrace(trace_id, spans, span_ctx_index) ==
  IF spans = << >> THEN << >>
  ELSE LET sp == Head(spans)
           tags_list == Or(Get(sp, "tags"), PList(<< >>))
           filtered_tags == FilteredTags(DictItems(tags_list), << >>)
           rest == SpansOfTrace(trace_id, Tail(spans), span_ctx_index)
       IN  IF ~IsList(tags_list) \/ DOMAIN filtered_tags = {} THEN rest
           ELSE <<OneSpan(trace_id, sp, filtered_tags, span_ctx_index)>> \o rest

RECURSIVE SpansOfData(_, _)
SpansOfData(data, span_ctx_index) ==
  IF data = << >> THEN << >>
  ELSE LET tr == Head(data)
           trace_id == Or(Get(tr, "traceID"), Get(tr, "traceId"))
           spans == Or(Get(tr, "spans"), PList(<< >>))
       IN  (IF IsList(spans)
            THEN SpansOfTrace(trace_id, DictItems(spans), span_ctx_index)
            ELSE << >>)
           \o SpansOfData(Tail(data), span_ctx_index)

\* _simplify_trace_detail_to_error_spans(detail, related_objects)
SimplifyTraceDetailToErrorSpans(detail, related_objects) ==
  IF ~IsDict(detail) \/ ~Truthy(Get(detail, "success")) THEN << >>
  ELSE LET trace_payload == Or(Get(detail, "trace"), PDict(<< >>))
       IN  IF ~IsDict(trace_payload) THEN << >>
           ELSE LET data == Or(Get(trace_payload, "data"), PList(<< >>))
                IN  IF ~IsList(data) THEN << >>
                    ELSE SpansOfData(DictItems(data),
                                     SpanCtxIndex(SpanCtxItems(related_objects), << >>))

(***************************************************************************)
(* Bounds and the answers of the collaborators                             *)
(***************************************************************************)

\* Most trace IDs handed to one direct call of the batch fetch.
MaxBatchIds == 3

\* Largest concurrency argument tried besides the default.
MaxCap == 2

\* concurrency: int = 10
DefaultConcurrency == 10

\* The i-th trace ID of the backend.
TraceId(i) == IF i = 1 THEN STR.abc123 ELSE IF i = 2 THEN STR.def456 ELSE <<"t">> \o IntStr(i)

\* An exception raised by a collaborator.
Raise(exc) == [k |-> "raise", exc |-> exc]
IsRaise(v) == v.k = "raise"

Tag(key, value) == PDict([key |-> PStr(key), value |-> value])

RawSpan(span_id, tags) ==
  PDict([spanID |-> PStr(span_id), operationName |-> PStr(STR.GET),
         startTime |-> PInt(1), duration |-> PInt(2), tags |-> PList(tags)])

TraceDetail(tid, spans) ==
  PDict([success |-> PBool(TRUE),
         trace |-> PDict([data |-> PList(<<PDict([traceID |-> PStr(tid),
                                                  spans |-> PList(spans)])>>)])])

\* Spans of the trace backend: one tagged error=true, one with
\* otel.status_code=ERROR beside a harmless tag, one with no error at all.
SpanErrorTrue == RawSpan(STR.s1, <<Tag(STR.error, PStr(STR.true))>>)
SpanOtelError == RawSpan(STR.s1, <<Tag(STR.otel_status, PStr(STR.ERROR)),
                                   Tag(STR.http_status, PStr(STR.ok))>>)
SpanClean == RawSpan(STR.s1, <<Tag(STR.http_status, PStr(STR.ok))>>)

\* What service.get_trace_details(tid) may do: raise, time out, answer with a
\* value that is no dict, with a dict whose trace is malformed, with a trace
\* that lacks the success flag, or with a well-formed trace.
DetailResponses(tid) ==
  { Raise("Exception"),
    Raise("TimeoutError"),
    PList(<< >>),
    PDict([success |-> PBool(TRUE), trace |-> PStr(STR.ok)]),
    PDict([trace |-> PDict([data |-> PList(<<PDict([traceID |-> PStr(tid),
                                                    spans |-> PList(<<SpanOtelError>>)])>>)])]),
    TraceDetail(tid, <<SpanErrorTrue>>),
    TraceDetail(tid, <<SpanOtelError, SpanClean>>),
    TraceDetail(tid, <<SpanClean>>) }

\* What constructing TempoQueryService may raise (nothing: "none").
ServiceOutcomes == {"none", "RuntimeError", "Exception"}

\* Objects a domain query returns: with the trace ID at top level, in the
\* context (with span ID and attributes), under the other spelling, and one
\* with no usable ID (a number) that carries log fields.
RelTop == PDict([traceID |-> PStr(TraceId(1))])
RelCtx ==
  PDict([context |-> PDict([traceID |-> PStr(TraceId(1)), spanID |-> PStr(STR.s1)]),
         attributes |-> PDict([k \in {"k8s.namespace.name", "k8s.pod.name"} |->
                                 IF k = "k8s.namespace.name" THEN PStr(STR.prod)
                                 ELSE PStr(STR.svc1)])])
RelAlt == PDict([traceId |-> PStr(TraceId(2))])
RelNoId == PDict([id |-> PInt(7), message |-> PStr(STR.slow), level |-> PStr(STR.Error)])

\* What client.query_objects(qstr) may return (it may also raise).
ObjResults ==
  { PList(<< >>),
    PList(<<RelTop>>),
    PList(<<RelCtx, RelAlt, RelTop>>),
    PDict([data |-> PList(<<RelAlt>>)]),
    RelTop,
    PList(<<RelNoId>>),
    None }

LogEntry(level, message) ==
  PDict([level |-> level, message |-> message,
         namespace |-> PStr(STR.prod), pod |-> PStr(STR.svc1)])

\* What client.simplify_log_objects(obj_result) may return (it may also raise):
\* None, or a list of log entries.
SimplifiedResults ==
  { None,
    PList(<< >>),
    PList(<<LogEntry(PStr(STR.ERROR), PStr(STR.OOM))>>),
    PList(<<LogEntry(PStr(STR.INFO), PStr(STR.ok)),
            LogEntry(PStr(STR.Error), PStr(STR.slow))>>),
    PList(<<LogEntry(PStr(STR.NOTICE), PStr(STR.slow)),
            LogEntry(PStr(STR.FATAL), PStr(STR.empty)),
            LogEntry(None, PStr(STR.ok))>>) }

Query(qstr) == PDict([query |-> PStr(qstr)])

\* One goal result carrying its goal name under field and a list of queries.
GoalItem(field, name, qs) ==
  PDict([k \in {field, "queries"} |-> IF k = field THEN name ELSE PList(qs)])

\* One goal result with no goal name.
UnnamedItem(qs) == PDict([queries |-> PList(qs)])

\* What client.list_goals(goals, start) may return (it may also raise): values
\* that are no list, and lists of goal results.
GoalsResults ==
  { None,
    PDict([goals |-> PList(<< >>)]),
    PDict([goals |-> PList(<<GoalItem("goal", PStr(STR.log_application),
                                      <<Query(STR.q_log)>>)>>)]),
    PStr(STR.ok),
    PList(<< >>),
    PList(<<GoalItem("goal", PStr(STR.log_application), <<Query(STR.q_log)>>),
            GoalItem("goal", PStr(STR.trace_span), <<Query(STR.q_trace), Query(STR.q_trace2)>>)>>),
    PList(<<UnnamedItem(<<Query(STR.q_log)>>),
            UnnamedItem(<<Query(STR.q_trace)>>)>>),
    PList(<<GoalItem("class", PStr(STR.metric_foo), <<Query(STR.q_log)>>),
            GoalItem("name", PStr(STR.Trace_span), <<Query(STR.q_trace)>>)>>),
    PList(<<GoalItem("goal", PStr(STR.trace), <<Query(STR.q_trace)>>),
            GoalItem("goal", PInt(7), <<Query(STR.q_log)>>)>>),
    PList(<<PStr(STR.trace_span),
            PDict([goal |-> PStr(STR.trace_span), queries |-> None]),
            GoalItem("goal", PStr(STR.tracer_x),
                     <<Query(STR.empty), PStr(STR.q_log), Query(STR.q_log2)>>)>>) }

\* The goals argument: the list build_correlated_context_from_metrics passes,
\* and a shorter one that starts with the trace goal.
CtxGoals == <<STR.log_application, STR.log_infrastructure, STR.trace_span>>
GoalArgs == {CtxGoals, <<STR.trace_span>>}

(***************************************************************************)
(* State                                                                   *)
(***************************************************************************)

VARIABLES
  loopRunning,      \* an event loop is already running in the calling thread
  syncMode,         \* _get_error_trace_details_sync: "none", "direct", "thread"
  batchPc,          \* _fetch_trace_details_for_ids_async: "idle", "called",
                    \*   "running", "returned", "raised"
  batchExc,         \* the exception a raised batch ended with
  trace_ids,        \* its trace_ids argument
  concurrency,      \* its concurrency argument
  semaphore,        \* free permits of its semaphore
  tasks,            \* fetch_one per position: pc, the response received, the result,
                    \*   and the rank of its completion among the fetches (0: running)
  filtered,         \* the list the batch returns
  detailCalls,      \* get_trace_details calls issued so far, per trace ID
  aggPc,            \* fetch_goal_query_objects: "idle", "called", "goal", "query",
                    \*   "fetching", "returned", "raised"
  goals,            \* its goals argument
  goals_result,     \* what list_goals returned
  idx,              \* position of the goal result at hand (from 1)
  bucket,           \* bucket of the goal result at hand
  queries,          \* its queries
  qidx,             \* position of the query at hand (from 1)
  obj_result,       \* what query_objects returned for the query at hand
  aggregated,       \* the two buckets
  seen_trace_ids,   \* trace IDs already handed to a detail fetch in this pass
  executed,         \* the (idx, qidx) for which query_objects was called
  failed,           \* the (idx, qidx) whose execution raised
  query,            \* its query argument (the start query)
  backend,          \* the answers the collaborators may give: "any", "mixed", "scenario"
  korrel8r_enabled, \* config.KORREL8R_ENABLED
  pairs,            \* the extracted (namespace, pod) pairs, in iteration order
  ctxPc,            \* build_correlated_context_from_metrics: "idle", "called", "pair",
                    \*   "aggregating", "returned", "raised"
  pidx,             \* position of the pair at hand (from 1)
  aggregated_logs,  \* the log pool kept for the context
  aggregated_traces,\* the trace pool kept for the context
  env,              \* the environment read when the context is assembled
  result_str,       \* the returned context
  fn,               \* the function called on its own: "none" or its name
  fnArgs,           \* the arguments of that call
  fnRet,            \* what the call returned or raised, None while it runs
  fnCalls,          \* the collaborators that call has called so far
  chatBot,          \* the chat bot whose chat runs: "none", "openai", "llama", "google"
  chatPc,           \* chat: "idle", "called", "loop", "returned"
  iteration,        \* its iteration counter
  messages,         \* the conversation sent with the next request (OpenAI, Llama)
  function_responses, \* the function responses sent with the next request (Gemini)
  response,         \* the response of the last request, None before the first
  final_response,   \* what chat returned, None while it runs
  NAMESPACE,        \* the NAMESPACE environment variable is set
  configmap,        \* the ConfigMap ai-model-config in the cluster
  runtime_config,   \* _runtime_config, the cached configuration
  config_last_updated, \* _config_last_updated, None before the first refresh
  config_lock,      \* the thread that holds _config_lock, 0 for none
  clock,            \* datetime.now(), in seconds
  cfgPc,            \* where each thread is in get_model_config or add_model_to_config
  cfgLocal          \* the local variables of each thread's call

batchVars == <<syncMode, batchPc, batchExc, trace_ids, concurrency, semaphore,
               tasks, filtered, detailCalls>>

aggVars == <<aggPc, goals, query, goals_result, idx, bucket, queries, qidx, obj_result,
             aggregated, seen_trace_ids, executed, failed>>

ctxVars == <<korrel8r_enabled, pairs, ctxPc, pidx, aggregated_logs, aggregated_traces,
             env, result_str>>

fnVars == <<fn, fnArgs, fnRet, fnCalls>>

chatVars == <<chatBot, chatPc, iteration, messages, function_responses, response,
              final_response>>

\* The state of the chat bots and of the model configuration.
cfgVars == <<NAMESPACE, configmap, runtime_config, config_last_updated, config_lock,
             clock, cfgPc, cfgLocal>>

extVars == <<chatVars, cfgVars>>

vars == <<loopRunning, backend, batchVars, aggVars, ctxVars, fnVars, extVars>>

\* A log entry that carries a timestamp.
LogEntryAt(level, message, ts) ==
  PDict(DictPut(LogEntry(level, message).d, "timestamp", PStr(ts)))

\* The answers the collaborators may give to one call, by kind of call:
\*   "goals"       client.list_goals(goals, start)
\*   "objects"     client.query_objects(qstr), arg the query string
\*   "simplified"  client.simplify_log_objects(obj_result)
\*   "detail"      service.get_trace_details(tid), arg the trace ID
\*   "service"     TempoQueryService()
\* Backend "any" draws from every catalogued answer.  Backend "scenario" is the
\* deterministic backend of the end-to-end scenario: one log query yielding the
\* ERROR/OOM entry of (prod, svc-1), one trace query yielding trace abc123 whose
\* detail holds one span tagged error=true.  Backend "mixed" answers with logs
\* of mixed levels and timestamps, with a query that has no query string, with
\* raw objects, failures and error traces.  Backend "bulk" answers every log
\* query with six entries that pass the level filter and every trace with six
\* error spans, so that two pairs fill the pools beyond the default limits.
\* Backend "perpair" answers by pair: the namespace dev has queries, one ERROR
\* entry and one error trace of its own, every other namespace those of prod.
\* Backend "faulty" is deterministic with failures: list_goals raises for a start
\* query that names dev; otherwise one log goal with a query that has no query
\* string, one that succeeds and one whose execution raises, a goal whose
\* queries are None, and a trace goal whose second query repeats trace abc123
\* beside def456, the detail fetch of which times out.
Answers(kind, arg) ==
  LET fail == Raise("Exception")
      TwoGoals(log_queries) ==
        PList(<<GoalItem("goal", PStr(STR.log_application), log_queries),
                GoalItem("goal", PStr(STR.trace_span), <<Query(STR.q_trace)>>)>>)
      oom == LogEntry(PStr(STR.ERROR), PStr(STR.OOM))
      logsA == PList(<<LogEntry(PStr(STR.INFO), PStr(STR.ok)),
                       LogEntryAt(PStr(STR.Error), PStr(STR.slow), STR.ts_aware),
                       LogEntry(PStr(STR.NOTICE), PStr(STR.slow)),
                       LogEntry(None, PStr(STR.ok))>>)
      logsB == PList(<<LogEntry(PStr(STR.FATAL), PStr(STR.empty)),
                       oom,
                       PDict([level |-> PStr(STR.WARN), line |-> PStr(STR.slow),
                              timestamp |-> PStr(STR.ts_naive)]),
                       LogEntry(PStr(STR.DEBUG), PStr(STR.ok))>>)
      logsBulk == PList(<<LogEntry(PStr(STR.WARN), PStr(STR.ok)),
                          oom,
                          LogEntry(PStr(STR.FATAL), PStr(STR.slow)),
                          LogEntry(PStr(STR.WARNING), PStr(STR.yes)),
                          LogEntry(PStr(STR.Error), PStr(STR.x)),
                          LogEntry(PStr(STR.NOTICE), PStr(STR.ok))>>)
      oomDev == PDict([level |-> PStr(STR.ERROR), message |-> PStr(STR.OOM),
                       namespace |-> PStr(STR.dev)])
      ErrSpan(id) == RawSpan(id, <<Tag(STR.otel_status, PStr(STR.ERROR))>>)
      spansBulk == <<ErrSpan(STR.s1), ErrSpan(STR.s2), ErrSpan(STR.s3),
                     ErrSpan(STR.s4), ErrSpan(STR.s5), ErrSpan(STR.s6)>>
  IN  CASE backend = "any" ->
             (CASE kind = "goals"      -> GoalsResults \cup {fail}
                [] kind = "objects"    -> ObjResults \cup {fail}
                [] kind = "simplified" -> SimplifiedResults \cup {fail}
                [] kind = "detail"     -> DetailResponses(arg)
                [] kind = "service"    -> ServiceOutcomes)
        [] backend = "scenario" ->
             (CASE kind = "goals"      -> {TwoGoals(<<Query(STR.q_log)>>)}
                [] kind = "objects"    -> IF arg = STR.q_trace THEN {PList(<<RelTop>>)}
                                          ELSE {PList(<<oom>>)}
                [] kind = "simplified" -> {PList(<<oom>>)}
                [] kind = "detail"     -> {TraceDetail(arg, <<SpanErrorTrue>>)}
                [] kind = "service"    -> {"none"})
        [] backend = "bulk" ->
             (CASE kind = "goals"      -> {TwoGoals(<<Query(STR.q_log)>>)}
                [] kind = "objects"    -> IF arg = STR.q_trace THEN {PList(<<RelTop>>)}
                                          ELSE {PList(<<oom>>)}
                [] kind = "simplified" -> {logsBulk}
                [] kind = "detail"     -> {TraceDetail(arg, spansBulk)}
                [] kind = "service"    -> {"none"})
        [] backend = "perpair" ->
             (CASE kind = "goals"      ->
                     IF Contains(STR.dev, arg)
                     THEN {PList(<<GoalItem("goal", PStr(STR.log_application),
                                            <<Query(STR.q_log2)>>),
                                   GoalItem("goal", PStr(STR.trace_span),
                                            <<Query(STR.q_trace2)>>)>>)}
                     ELSE {TwoGoals(<<Query(STR.q_log)>>)}
                [] kind = "objects"    ->
                     CASE arg = STR.q_trace  -> {PList(<<RelTop>>)}
                       [] arg = STR.q_trace2 -> {PList(<<RelAlt>>)}
                       [] arg = STR.q_log2   -> {PList(<<oomDev>>)}
                       [] OTHER              -> {PList(<<oom>>)}
                [] kind = "simplified" -> {arg}
                [] kind = "detail"     -> {TraceDetail(arg, <<ErrSpan(STR.s1)>>)}
                [] kind = "service"    -> {"none"})
        [] backend = "faulty" ->
             (CASE kind = "goals"      ->
                     IF Contains(STR.dev, arg) THEN {fail}
                     ELSE {PList(<<GoalItem("goal", PStr(STR.log_application),
                                            <<Query(STR.empty), Query(STR.q_log),
                                              Query(STR.q_log2)>>),
                                   PDict([goal |-> PStr(STR.trace_span), queries |-> None]),
                                   GoalItem("goal", PStr(STR.trace_span),
                                            <<Query(STR.q_trace), Query(STR.q_trace2)>>)>>)}
                [] kind = "objects"    ->
                     CASE arg = STR.q_trace  -> {PList(<<RelTop>>)}
                       [] arg = STR.q_trace2 -> {PList(<<RelTop, RelAlt>>)}
                       [] arg = STR.q_log2   -> {fail}
                       [] OTHER              -> {PList(<<oom>>)}
                [] kind = "simplified" -> {arg}
                [] kind = "detail"     -> IF arg = TraceId(1)
                                          THEN {TraceDetail(arg, <<SpanOtelError, SpanClean>>)}
                                          ELSE {Raise("TimeoutError")}
                [] kind = "service"    -> {"none"})
        [] backend = "mixed" ->
             (CASE kind = "goals"      -> {TwoGoals(<<Query(STR.empty), Query(STR.q_log)>>),
                                           fail}
                [] kind = "objects"    -> IF arg = STR.q_trace
                                          THEN {PList(<<RelCtx>>), PList(<<RelNoId>>), fail}
                                          ELSE {PList(<<RelNoId, PStr(STR.ok)>>), fail}
                [] kind = "simplified" -> {None, logsA, logsB}
                [] kind = "detail"     -> {Raise("TimeoutError"),
                                           TraceDetail(arg, <<SpanErrorTrue>>),
                                           TraceDetail(arg, <<SpanOtelError, SpanClean>>)}
                [] kind = "service"    -> {"none"})

(***************************************************************************)
(* _fetch_trace_details_for_ids_async                                      *)
(***************************************************************************)

\* fetch_one without the error predicate: every dict is returned.
FetchOneResultNoPredicate(resp) ==
  IF IsRaise(resp) THEN None
  ELSE IF IsDict(resp) THEN resp
  ELSE None

\* What fetch_one returns for a response: the response when it is a dict that
\* passes the error predicate, None otherwise (an exception is swallowed).
FetchOneResult(resp) ==
  IF IsRaise(resp) THEN None
  ELSE IF IsDict(resp) /\ TraceDetailContainsError(resp) THEN resp
  ELSE None

\* The results that are dicts, in the order in which the fetches completed.
FilterResultsByCompletion(results) ==
  SelectSeq([r \in 1..Len(results) |->
               results[CHOOSE i \in DOMAIN tasks : tasks[i].done_at = r]],
            IsDict)

\* The results of gather that are dicts, in the order of the tasks.
FilterResults(results) == SelectSeq(results, IsDict)

\* A semaphore one permit too large.
SemaphoreSizeOffByOne(c) == IF c < 1 THEN 1 ELSE c + 1

\* asyncio.Semaphore(max(1, concurrency))
SemaphoreSize(c) == IF c < 1 THEN 1 ELSE c

CallsOf(tid) == IF tid \in DOMAIN detailCalls THEN detailCalls[tid] ELSE 0

InFlight == {i \in DOMAIN tasks : tasks[i].pc = "inflight"}

\* The coroutine starts: no IDs returns at once; else the service is built (which
\* may raise), the semaphore is made and one fetch_one task per ID is gathered.
BatchBegin ==
  /\ batchPc = "called"
  /\ IF trace_ids = << >>
     THEN /\ batchPc' = "returned"
          /\ filtered' = << >>
          /\ UNCHANGED <<batchExc, semaphore, tasks>>
     ELSE \E outcome \in Answers("service", None) :
            IF outcome # "none"
            THEN /\ batchPc' = "raised"
                 /\ batchExc' = outcome
                 /\ UNCHANGED <<semaphore, tasks, filtered>>
            ELSE /\ batchPc' = "running"
                 /\ semaphore' = SemaphoreSize(concurrency)
                 /\ tasks' = [i \in 1..Len(trace_ids) |->
                                [pc |-> "acquire", resp |-> None, result |-> None,
                                 done_at |-> 0]]
                 /\ UNCHANGED <<batchExc, filtered>>
  /\ UNCHANGED <<extVars, loopRunning, backend, fnVars, ctxVars, syncMode, trace_ids, concurrency, detailCalls, aggVars>>

\* fetch_one(tid) enters the semaphore and issues get_trace_details(tid).
FetchStart(i) ==
  /\ batchPc = "running"
  /\ tasks[i].pc = "acquire"
  /\ semaphore > 0
  /\ semaphore' = semaphore - 1
  /\ tasks' = [tasks EXCEPT ![i].pc = "inflight"]
  /\ detailCalls' = DictPut(detailCalls, trace_ids[i], CallsOf(trace_ids[i]) + 1)
  /\ UNCHANGED <<extVars, loopRunning, backend, fnVars, ctxVars, syncMode, batchPc, batchExc, trace_ids, concurrency, filtered,
                 aggVars>>

\* get_trace_details(tid) ends; fetch_one leaves the semaphore with its result.
FetchComplete(i) ==
  /\ batchPc = "running"
  /\ tasks[i].pc = "inflight"
  /\ \E resp \in Answers("detail", trace_ids[i]) :
       tasks' = [tasks EXCEPT ![i] = [pc |-> "done", resp |-> resp,
                                      result |-> FetchOneResult(resp),
                                      done_at |-> 1 + Cardinality({j \in DOMAIN tasks :
                                                                    tasks[j].pc = "done"})]]
  /\ semaphore' = semaphore + 1
  /\ UNCHANGED <<extVars, loopRunning, backend, fnVars, ctxVars, syncMode, batchPc, batchExc, trace_ids, concurrency,
                 filtered, detailCalls, aggVars>>

\* gather has every result: the dicts among them are returned.
BatchGather ==
  /\ batchPc = "running"
  /\ \A i \in DOMAIN tasks : tasks[i].pc = "done"
  /\ batchPc' = "returned"
  /\ filtered' = FilterResults([i \in DOMAIN tasks |-> tasks[i].result])
  /\ UNCHANGED <<extVars, loopRunning, backend, fnVars, ctxVars, syncMode, batchExc, trace_ids, concurrency, semaphore,
                 tasks, detailCalls, aggVars>>

BatchStep ==
  \/ BatchBegin
  \/ \E i \in DOMAIN tasks : FetchStart(i)
  \/ \E i \in DOMAIN tasks : FetchComplete(i)
  \/ BatchGather

\* No chat runs.
ChatIdle ==
  /\ chatBot = "none"
  /\ chatPc = "idle"
  /\ iteration = 0
  /\ messages = << >>
  /\ function_responses = << >>
  /\ response = None
  /\ final_response = None

\* The two threads that call into the model configuration.
Threads == {1, 2}

CfgIdle ==
  /\ NAMESPACE = TRUE
  /\ configmap = [k |-> "absent"]
  /\ runtime_config = None
  /\ config_last_updated = None
  /\ config_lock = 0
  /\ clock = 0
  /\ cfgPc = [t \in Threads |-> "idle"]
  /\ cfgLocal = [t \in Threads |-> None]

\* The chat bots and the model configuration are at rest.
ExtIdle == ChatIdle /\ CfgIdle

\* No function is called on its own.
FnIdle ==
  /\ fn = "none"
  /\ fnArgs = None
  /\ fnRet = None
  /\ fnCalls = {}

\* build_correlated_context_from_metrics is not running.
CtxIdle ==
  /\ korrel8r_enabled = TRUE
  /\ pairs = << >>
  /\ ctxPc = "idle"
  /\ pidx = 0
  /\ aggregated_logs = << >>
  /\ aggregated_traces = << >>
  /\ env = None
  /\ result_str = None

\* fetch_goal_query_objects is not running.
AggIdle ==
  /\ aggPc = "idle"
  /\ goals = << >>
  /\ query = << >>
  /\ goals_result = None
  /\ idx = 0
  /\ bucket = "logs"
  /\ queries = << >>
  /\ qidx = 0
  /\ obj_result = None
  /\ aggregated = [logs |-> << >>, traces |-> << >>]
  /\ seen_trace_ids = {}
  /\ executed = {}
  /\ failed = {}

\* One direct call of the batch fetch with any IDs and any concurrency.
InitBatch ==
  /\ ExtIdle
  /\ loopRunning = FALSE
  /\ syncMode = "none"
  /\ batchPc = "called"
  /\ batchExc = "none"
  /\ \E n \in 0..MaxBatchIds : trace_ids = [i \in 1..n |-> TraceId(i)]
  /\ concurrency \in (-1..MaxCap) \cup {DefaultConcurrency}
  /\ semaphore = 0
  /\ tasks = << >>
  /\ filtered = << >>
  /\ detailCalls = << >>
  /\ backend = "any"
  /\ AggIdle
  /\ CtxIdle
  /\ FnIdle

SpecBatch == InitBatch /\ [][BatchStep]_vars


(***************************************************************************)
(* _get_error_trace_details_sync                                           *)
(***************************************************************************)

\* The wrapper is entered with the IDs to fetch: asyncio.run refuses to start
\* under a running event loop (RuntimeError before the coroutine runs), else
\* the coroutine runs in the calling thread.
SyncCall(ids) ==
  /\ syncMode' = "direct"
  /\ batchPc' = IF loopRunning THEN "raised" ELSE "called"
  /\ batchExc' = IF loopRunning THEN "RuntimeError" ELSE "none"
  /\ trace_ids' = ids
  /\ concurrency' = DefaultConcurrency
  /\ semaphore' = 0
  /\ tasks' = << >>
  /\ filtered' = << >>

\* except RuntimeError: the coroutine is run again in a thread of its own.
SyncFallback ==
  /\ syncMode = "direct"
  /\ batchPc = "raised"
  /\ batchExc = "RuntimeError"
  /\ syncMode' = "thread"
  /\ batchPc' = "called"
  /\ batchExc' = "none"
  /\ UNCHANGED <<extVars, loopRunning, backend, fnVars, ctxVars, trace_ids, concurrency, semaphore, tasks, filtered,
                 detailCalls, aggVars>>

\* How the wrapper ends: with the list of the batch, with the empty list when
\* the thread's run raised (result keeps its initial value), by raising what
\* the direct run raised, or not yet.
SyncOutcome ==
  IF batchPc = "returned" THEN [k |-> "value", v |-> filtered]
  ELSE IF batchPc = "raised" /\ syncMode = "thread" THEN [k |-> "value", v |-> << >>]
  ELSE IF batchPc = "raised" /\ syncMode = "direct" /\ batchExc # "RuntimeError"
       THEN [k |-> "raise", v |-> << >>]
  ELSE [k |-> "pending", v |-> << >>]

\* The wrapper and the batch are at rest.
SyncIdle ==
  /\ syncMode' = "none"
  /\ batchPc' = "idle"
  /\ batchExc' = "none"
  /\ trace_ids' = << >>
  /\ concurrency' = DefaultConcurrency
  /\ semaphore' = 0
  /\ tasks' = << >>
  /\ filtered' = << >>

(***************************************************************************)
(* fetch_goal_query_objects                                                *)
(***************************************************************************)

\* item.get("goal") or item.get("class") or item.get("name")
ExplicitGoalName(item) ==
  IF IsDict(item) THEN Or(Or(Get(item, "goal"), Get(item, "class")), Get(item, "name"))
  ELSE None

\* The goal name without the positional fallback.
GoalNameOfNoFallback(item, gs, i) == ExplicitGoalName(item)

\* The goal name of the goal result at position i (from 1): the explicit one,
\* else the requested goal at the same position when there is one.
GoalNameOf(item, gs, i) ==
  LET goal_name == ExplicitGoalName(item)
  IN  IF ~Truthy(goal_name) /\ 1 <= i /\ i <= Len(gs) THEN PStr(gs[i]) ELSE goal_name

\* goal_name.split(":", 1)[0].strip().lower() for a string holding ":", else "".
DomainOf(goal_name) ==
  IF IsStr(goal_name) /\ HasChar(goal_name.s, ":")
  THEN Lower(Strip(BeforeFirst(goal_name.s, ":")))
  ELSE STR.empty

\* "traces" if domain == "trace" else "logs" if domain == "log" else "logs"
BucketOf(domain) ==
  IF domain = STR.trace THEN "traces" ELSE IF domain = STR.log THEN "logs" ELSE "logs"

\* item.get("queries", []) if isinstance(item, dict) else []
QueriesOf(item) == IF IsDict(item) THEN GetOr(item, "queries", PList(<< >>)) ELSE PList(<< >>)

\* The elements the query loop meets; the keys of a dict and the characters of
\* a str are no dicts and are skipped, so only a list contributes.
QueryItems(qs) == IF IsList(qs) THEN qs.items ELSE << >>

\* q.get("query") if isinstance(q, dict) else None
QueryString(q) == IF IsDict(q) THEN Get(q, "query") ELSE None

\* The IDs to fetch with the seen-set ignored.
IdsToFetchAll(ids, seen) == ids

\* [tid for tid in trace_ids if tid not in seen_trace_ids]
IdsToFetch(ids, seen) == SelectSeq(ids, LAMBDA tid : tid \notin seen)

\* Fallback/default aggregation of a raw result into a bucket.
FallbackExtend(items, obj) ==
  IF IsList(obj) THEN items \o obj.items
  ELSE IF IsDict(obj)
       THEN IF "data" \in DOMAIN obj.d /\ IsList(obj.d["data"])
            THEN items \o obj.d["data"].items
            ELSE Append(items, obj)
       ELSE items

\* Whether a traces query that fetched nothing skips the fallback aggregation:
\* the continue of the traces branch stands inside "if ids_to_fetch".
TracesBranchContinues(ids_to_fetch) == ids_to_fetch # << >>

\* The spans of the fetched details, in the order of the details.
RECURSIVE SimplifyAll(_, _)
SimplifyAll(error_traces, related) ==
  IF error_traces = << >> THEN << >>
  ELSE SimplifyTraceDetailToErrorSpans(Head(error_traces), related)
       \o SimplifyAll(Tail(error_traces), related)

\* The loop without the inner try: the outer try catches a failing query.
CaughtByOuterOnly(site) ==
  CASE site = "query" -> "outer"
    [] site = "goal" -> "outer"
    [] OTHER -> "caller"

\* The loop without any try: a failing query reaches the caller.
CaughtByNone(site) == "caller"

\* The try block that catches an exception raised at a site: list_goals is
\* called outside any try, the loop over one goal result runs in the outer try,
\* one query runs in the inner try.
CaughtBy(site) ==
  CASE site = "query" -> "inner"
    [] site = "goal" -> "outer"
    [] OTHER -> "caller"

\* The goal loop with a dict answer unwrapped: the list under its key goals
\* is looped over.
IteratedGoalsUnwrapped(r) ==
  IF IsList(r) THEN r
  ELSE IF IsDict(r) /\ IsList(Get(r, "goals")) THEN Get(r, "goals")
       ELSE None

\* if isinstance(goals_result, list): the list the goal loop runs over, None
\* when the loop is not entered.
IteratedGoals(r) == IF IsList(r) THEN r ELSE None

\* The detail fetch started without waiting for it: the query loop goes on.
AfterSyncCallDetached == "query"

\* Where the aggregation stands once _get_error_trace_details_sync is called:
\* asyncio.run, or the join of the thread, returns when the batch has ended.
AfterSyncCall == "fetching"

\* continue: on to the next query of the goal result at hand.
NextQuery ==
  /\ aggPc' = "query"
  /\ qidx' = qidx + 1
  /\ UNCHANGED <<idx, bucket, queries>>

\* An exception raised at a site, at the query (idx, qidx) when there is one.
OnException(site) ==
  LET h == CaughtBy(site)
  IN  IF h = "inner" THEN NextQuery
      ELSE IF h = "outer"
           THEN /\ aggPc' = "goal"
                /\ idx' = idx + 1
                /\ UNCHANGED <<bucket, queries, qidx>>
           ELSE /\ aggPc' = "raised"
                /\ UNCHANGED <<idx, bucket, queries, qidx>>

\* client.list_goals(goals, start) raises, or returns a value; a list starts the
\* loop, any other value ends the pass with empty buckets.
ListGoals ==
  /\ aggPc = "called"
  /\ \E r \in Answers("goals", query) :
       IF IsRaise(r)
       THEN /\ OnException("list_goals")
            /\ UNCHANGED goals_result
       ELSE /\ goals_result' = r
            /\ aggPc' = IF IteratedGoals(r) # None THEN "goal" ELSE "returned"
            /\ idx' = 1
            /\ UNCHANGED <<bucket, queries, qidx>>
  /\ UNCHANGED <<extVars, loopRunning, backend, fnVars, ctxVars, batchVars, goals, query, obj_result, aggregated, seen_trace_ids,
                 executed, failed>>

\* The loop takes the next goal result: its goal name, bucket and queries.
EnterGoal ==
  /\ aggPc = "goal"
  /\ idx <= Len(IteratedGoals(goals_result).items)
  /\ LET item == IteratedGoals(goals_result).items[idx]
         qs == QueriesOf(item)
     IN  IF ~Iterable(qs)
         THEN OnException("goal")
         ELSE /\ bucket' = BucketOf(DomainOf(GoalNameOf(item, goals, idx)))
              /\ queries' = QueryItems(qs)
              /\ qidx' = 1
              /\ aggPc' = "query"
              /\ UNCHANGED idx
  /\ UNCHANGED <<extVars, loopRunning, backend, fnVars, ctxVars, batchVars, goals, query, goals_result, obj_result, aggregated,
                 seen_trace_ids, executed, failed>>

\* The queries of the goal result at hand are done.
LeaveGoal ==
  /\ aggPc = "query"
  /\ qidx > Len(queries)
  /\ aggPc' = "goal"
  /\ idx' = idx + 1
  /\ UNCHANGED <<extVars, loopRunning, backend, fnVars, ctxVars, batchVars, goals, query, goals_result, bucket, queries, qidx,
                 obj_result, aggregated, seen_trace_ids, executed, failed>>

\* The loop is over: the buckets are returned.
ReturnAggregated ==
  /\ aggPc = "goal"
  /\ idx > Len(IteratedGoals(goals_result).items)
  /\ aggPc' = "returned"
  /\ UNCHANGED <<extVars, loopRunning, backend, fnVars, ctxVars, batchVars, goals, query, goals_result, idx, bucket, queries, qidx,
                 obj_result, aggregated, seen_trace_ids, executed, failed>>

\* A query without a query string is skipped.
SkipQuery ==
  /\ aggPc = "query"
  /\ qidx <= Len(queries)
  /\ ~Truthy(QueryString(queries[qidx]))
  /\ NextQuery
  /\ UNCHANGED <<extVars, loopRunning, backend, fnVars, ctxVars, batchVars, goals, query, goals_result, obj_result, aggregated,
                 seen_trace_ids, executed, failed>>

\* query_objects raises.
QueryRaises ==
  /\ aggPc = "query"
  /\ qidx <= Len(queries)
  /\ Truthy(QueryString(queries[qidx]))
  /\ \E r \in Answers("objects", StrOf(QueryString(queries[qidx]))) : IsRaise(r)
  /\ executed' = executed \cup {<<idx, qidx>>}
  /\ failed' = failed \cup {<<idx, qidx>>}
  /\ OnException("query")
  /\ UNCHANGED <<extVars, loopRunning, backend, fnVars, ctxVars, batchVars, goals, query, goals_result, obj_result, aggregated,
                 seen_trace_ids>>

\* A query of the logs bucket: the simplified list extends the bucket; when the
\* simplification returns no list the raw result is aggregated by the fallback;
\* when it raises the query is given up.
LogsQuery ==
  /\ aggPc = "query"
  /\ qidx <= Len(queries)
  /\ Truthy(QueryString(queries[qidx]))
  /\ bucket = "logs"
  /\ executed' = executed \cup {<<idx, qidx>>}
  /\ \E o \in Answers("objects", StrOf(QueryString(queries[qidx]))) :
     \E simplified \in Answers("simplified", o) :
       /\ ~IsRaise(o)
       /\ obj_result' = o
       /\ IF IsRaise(simplified)
          THEN /\ failed' = failed \cup {<<idx, qidx>>}
               /\ OnException("query")
               /\ UNCHANGED aggregated
          ELSE /\ aggregated' =
                    [aggregated EXCEPT !.logs =
                       IF IsList(simplified) THEN @ \o simplified.items
                       ELSE FallbackExtend(@, o)]
               /\ NextQuery
               /\ UNCHANGED failed
  /\ UNCHANGED <<extVars, loopRunning, backend, fnVars, ctxVars, batchVars, goals, query, goals_result, seen_trace_ids>>

\* A query of the traces bucket: the new trace IDs are marked seen and handed
\* to the detail fetch; with nothing to fetch the raw result goes through the
\* fallback aggregation.
TracesQuery ==
  /\ aggPc = "query"
  /\ qidx <= Len(queries)
  /\ Truthy(QueryString(queries[qidx]))
  /\ bucket = "traces"
  /\ executed' = executed \cup {<<idx, qidx>>}
  /\ \E o \in Answers("objects", StrOf(QueryString(queries[qidx]))) :
       LET ids == ExtractUniqueTraceIds(o)
           ids_to_fetch == IdsToFetch(ids, seen_trace_ids)
       IN  /\ ~IsRaise(o)
           /\ obj_result' = o
           /\ seen_trace_ids' = seen_trace_ids \cup {ids_to_fetch[i] : i \in 1..Len(ids_to_fetch)}
           /\ IF ids_to_fetch # << >>
              THEN /\ SyncCall(ids_to_fetch)
                   /\ aggPc' = AfterSyncCall
                   /\ UNCHANGED <<idx, bucket, queries, qidx, aggregated>>
              ELSE /\ aggregated' =
                        [aggregated EXCEPT !.traces =
                           IF TracesBranchContinues(ids_to_fetch) THEN @
                           ELSE FallbackExtend(@, o)]
                   /\ NextQuery
                   /\ UNCHANGED <<syncMode, batchPc, batchExc, trace_ids, concurrency,
                                  semaphore, tasks, filtered>>
  /\ UNCHANGED <<extVars, loopRunning, backend, fnVars, ctxVars, detailCalls, goals, query, goals_result, failed>>

\* The detail fetch of the query at hand has ended: the spans of the returned
\* details extend the traces bucket; when the fetch raised the query is given up.
FinishTracesQuery ==
  /\ aggPc = "fetching"
  /\ SyncOutcome.k # "pending"
  /\ IF SyncOutcome.k = "raise"
     THEN /\ failed' = failed \cup {<<idx, qidx>>}
          /\ OnException("query")
          /\ UNCHANGED aggregated
     ELSE /\ aggregated' =
               [aggregated EXCEPT !.traces = @ \o SimplifyAll(SyncOutcome.v, obj_result)]
          /\ NextQuery
          /\ UNCHANGED failed
  /\ SyncIdle
  /\ UNCHANGED <<extVars, loopRunning, backend, fnVars, ctxVars, detailCalls, goals, query, goals_result, obj_result,
                 seen_trace_ids, executed>>

AggStep ==
  \/ ListGoals
  \/ EnterGoal
  \/ SkipQuery
  \/ QueryRaises
  \/ LogsQuery
  \/ TracesQuery
  \/ SyncFallback
  \/ BatchStep
  \/ FinishTracesQuery
  \/ LeaveGoal
  \/ ReturnAggregated

\* One call of fetch_goal_query_objects.
InitAgg ==
  /\ ExtIdle
  /\ loopRunning \in BOOLEAN
  /\ syncMode = "none"
  /\ batchPc = "idle"
  /\ batchExc = "none"
  /\ trace_ids = << >>
  /\ concurrency = DefaultConcurrency
  /\ semaphore = 0
  /\ tasks = << >>
  /\ filtered = << >>
  /\ detailCalls = << >>
  /\ backend = "any"
  /\ CtxIdle
  /\ FnIdle
  /\ aggPc = "called"
  /\ goals \in GoalArgs
  /\ query = STR.q_log
  /\ goals_result = None
  /\ idx = 0
  /\ bucket = "logs"
  /\ queries = << >>
  /\ qidx = 0
  /\ obj_result = None
  /\ aggregated = [logs |-> << >>, traces |-> << >>]
  /\ seen_trace_ids = {}
  /\ executed = {}
  /\ failed = {}

SpecAgg == InitAgg /\ [][AggStep]_vars


(***************************************************************************)
(* core/metrics.py: sort_logs_by_severity_then_time                        *)
(***************************************************************************)

\* int(s) for a string of decimal digits.
RECURSIVE Num(_)
Num(s) ==
  IF s = << >> THEN 0
  ELSE 10 * Num(SubSeq(s, 1, Len(s) - 1))
       + ((CHOOSE i \in 1..10 : Digits[i] = s[Len(s)]) - 1)

IsDigits(s) == s # << >> /\ \A i \in 1..Len(s) : \E j \in 1..10 : Digits[j] = s[i]

\* datetime.fromisoformat(s) for YYYY-MM-DD(T| )HH:MM:SS, an optional fraction of
\* 3 or 6 digits and an optional offset +HH:MM or -HH:MM; None stands for the
\* ValueError of any other text.  A datetime is held as its awareness, its
\* seconds on a scale that keeps the order of instants (months counted as 31
\* days, years from 2024) and its microseconds.
FromIsoFormat(s) ==
  LET n == Len(s)
      part(a, b) == SubSeq(s, a, b)
      coreOk == /\ n >= 19
                /\ IsDigits(part(1, 4)) /\ s[5] = "-" /\ IsDigits(part(6, 7))
                /\ s[8] = "-" /\ IsDigits(part(9, 10)) /\ s[11] \in {"T", " "}
                /\ IsDigits(part(12, 13)) /\ s[14] = ":" /\ IsDigits(part(15, 16))
                /\ s[17] = ":" /\ IsDigits(part(18, 19))
                /\ Num(part(6, 7)) \in 1..12 /\ Num(part(9, 10)) \in 1..31
                /\ Num(part(12, 13)) < 24 /\ Num(part(15, 16)) < 60
                /\ Num(part(18, 19)) < 60
      fracLen == IF n >= 20 /\ s[20] = "."
                 THEN IF n >= 26 /\ IsDigits(part(21, 26)) THEN 6
                      ELSE IF n >= 23 /\ IsDigits(part(21, 23)) THEN 3 ELSE -1
                 ELSE 0
      tzAt == IF fracLen > 0 THEN 21 + fracLen ELSE 20
      tz == part(tzAt, n)
      tzOk == \/ tz = << >>
              \/ /\ Len(tz) = 6 /\ tz[1] \in {"+", "-"} /\ IsDigits(SubSeq(tz, 2, 3))
                 /\ tz[4] = ":" /\ IsDigits(SubSeq(tz, 5, 6))
      offset == IF tz = << >> THEN 0
                ELSE (IF tz[1] = "-" THEN -1 ELSE 1)
                     * (Num(SubSeq(tz, 2, 3)) * 3600 + Num(SubSeq(tz, 5, 6)) * 60)
      micro == IF fracLen = 6 THEN Num(part(21, 26))
               ELSE IF fracLen = 3 THEN Num(part(21, 23)) * 1000 ELSE 0
  IN  IF ~(coreOk /\ fracLen >= 0 /\ tzOk) THEN None
      ELSE [k |-> "datetime",
            aware |-> tz # << >>,
            t |-> (((Num(part(1, 4)) - 2024) * 12 + (Num(part(6, 7)) - 1)) * 31
                     + (Num(part(9, 10)) - 1)) * 86400
                  + Num(part(12, 13)) * 3600 + Num(part(15, 16)) * 60
                  + Num(part(18, 19)) - offset,
            us |-> micro]

\* _parse_ts(ts): strip, a trailing Z becomes +00:00, the fraction is cut to its
\* digits (at most 6) with the offset put back behind it, then fromisoformat.
ParseTs(ts) ==
  LET Rebuild(head, digits, tz) ==
        IF digits # << >> THEN head \o <<".">> \o digits \o tz ELSE head \o tz
      AtMost6(kept) == IF Len(kept) > 6 THEN SubSeq(kept, 1, 6) ELSE kept
      WithCut(head, tail, cut) ==
        Rebuild(head,
                AtMost6(SelectSeq(SubSeq(tail, 1, cut - 1), LAMBDA c : IsDigits(<<c>>))),
                SubSeq(tail, cut, Len(tail)))
      FirstOf(cuts, none) ==
        IF cuts = {} THEN none ELSE CHOOSE i \in cuts : \A j \in cuts : i <= j
      WithTail(head, tail) ==
        WithCut(head, tail,
                FirstOf({i \in 2..Len(tail) : tail[i] \in {"+", "-"}}, Len(tail) + 1))
      WithHead(s, head) == WithTail(head, SubSeq(s, Len(head) + 2, Len(s)))
      Fraction(s) == IF HasChar(s, ".") THEN WithHead(s, BeforeFirst(s, ".")) ELSE s
      Zulu(s) == IF s # << >> /\ s[Len(s)] = "Z"
                 THEN SubSeq(s, 1, Len(s) - 1) \o STR.utc_offset ELSE s
  IN  IF ts = << >> THEN None ELSE FromIsoFormat(Fraction(Zulu(Strip(ts))))

\* severity_rank.get(level, 0)
SeverityRank(level) ==
  CASE level \in {STR.FATAL, STR.CRITICAL} -> 7
    [] level = STR.ERROR -> 6
    [] level \in {STR.WARN, STR.WARNING} -> 5
    [] level = STR.INFO -> 3
    [] level = STR.DEBUG -> 2
    [] level = STR.TRACE -> 1
    [] OTHER -> 0

\* _sort_key(log): (rank, dt or datetime.fromtimestamp(0)); the epoch is an
\* offset-naive datetime (local time taken as UTC).
SortKey(log) ==
  LET OrEpoch(dt) == IF dt = None THEN FromIsoFormat(STR.epoch) ELSE dt
  IN  [rank |-> SeverityRank(Upper(StrOf(Or(Get(log, "level"), PStr(STR.UNKNOWN))))),
       dt |-> OrEpoch(ParseTs(StrOf(Or(Or(Get(log, "timestamp"), Get(log, "ts")),
                                       PStr(STR.empty)))))]

\* The comparison with the timestamps taken oldest first.
KeyLessOldestFirst(a, b) ==
  \/ a.rank < b.rank
  \/ /\ a.rank = b.rank
     /\ (a.dt.t > b.dt.t \/ (a.dt.t = b.dt.t /\ a.dt.us > b.dt.us))

\* a < b on sort keys, for keys whose datetimes can be compared.
KeyLess(a, b) ==
  \/ a.rank < b.rank
  \/ /\ a.rank = b.rank
     /\ (a.dt.t < b.dt.t \/ (a.dt.t = b.dt.t /\ a.dt.us < b.dt.us))

\* One keyed entry put into a list sorted in descending key order, behind the
\* entries that do not compare below it (equal keys keep their input order).
RECURSIVE InsertByKey(_, _)
InsertByKey(sorted, x) ==
  IF sorted = << >> THEN <<x>>
  ELSE IF KeyLess(Head(sorted).key, x.key) THEN <<x>> \o sorted
  ELSE <<Head(sorted)>> \o InsertByKey(Tail(sorted), x)

RECURSIVE SortedDescending(_, _)
SortedDescending(sorted, rest) ==
  IF rest = << >> THEN sorted
  ELSE SortedDescending(InsertByKey(sorted, Head(rest)), Tail(rest))

\* sorted(logs, key=_sort_key, reverse=True).  Two entries of one rank are
\* ordered by comparing their datetimes, and comparing an offset-naive with an
\* offset-aware datetime raises TypeError.
SortLogsBySeverityThenTime(logs) ==
  LET Logs(keyed) == PList([i \in 1..Len(keyed) |-> keyed[i].log])
      Sorted(keyed) ==
        IF \E i, j \in 1..Len(keyed) :
              /\ keyed[i].key.rank = keyed[j].key.rank
              /\ keyed[i].key.dt.aware /\ ~keyed[j].key.dt.aware
        THEN Raise("TypeError")
        ELSE Logs(SortedDescending(<< >>, keyed))
  IN  Sorted([i \in 1..Len(logs) |-> [key |-> SortKey(logs[i]), log |-> logs[i]]])

(***************************************************************************)
(* core/metrics.py: rendering                                              *)
(***************************************************************************)

\* _fmt_val(v)
FmtVal(v) ==
  CASE v.k = "none" -> STR.null
    [] v.k = "bool" -> IF v.b THEN STR.true ELSE STR.false
    [] v.k = "int"  -> IntStr(v.n)
    [] OTHER ->
         LET s == ReplaceChar(StrOf(v), "\"", <<"\\", "\"">>)
         IN  IF \E i \in 1..Len(s) : IsSpace(s[i]) THEN <<"\"">> \o s \o <<"\"">> ELSE s

\* The top-level keys of a span: ordered_keys, the other keys of the objects of
\* the model in sorted order, and the text of each key.
SpanKeys ==
  [ ordered |-> <<"traceID", "spanID", "operationName", "startTime", "duration">>,
    others  |-> <<"attributes", "context", "id", "level", "message", "namespace",
                  "pod", "traceId">>,
    text    |-> [traceID |-> STR.traceID, spanID |-> STR.spanID,
                 operationName |-> STR.operationName, startTime |-> STR.startTime,
                 duration |-> STR.duration,
                 attributes |-> <<"a","t","t","r","i","b","u","t","e","s">>,
                 context |-> <<"c","o","n","t","e","x","t">>,
                 id |-> STR.id, level |-> STR.level, message |-> STR.message,
                 namespace |-> STR.namespace, pod |-> STR.pod,
                 traceId |-> <<"t","r","a","c","e","I","d">>] ]

\* sorted(keys) for a set of strings.
RECURSIVE SortedStrs(_)
SortedStrs(S) ==
  IF S = {} THEN << >>
  ELSE LET m == CHOOSE x \in S : \A y \in S \ {x} : StrLess(x, y)
       IN  <<m>> \o SortedStrs(S \ {m})

\* _format_span_kv(span_obj)
FormatSpanKv(span_obj) ==
  LET has(k) == k \in DOMAIN span_obj.d
      kv(k) == SpanKeys.text[k] \o <<"=">> \o FmtVal(span_obj.d[k])
      ordered == SelectSeq(SpanKeys.ordered, has)
      others == SelectSeq(SpanKeys.others, has)
      tags_val == Get(span_obj, "tags")
      tagKeys == IF IsDict(tags_val) THEN SortedStrs(DOMAIN tags_val.d) ELSE << >>
      listed == SelectSeq(DictItems(tags_val),
                  LAMBDA tg : Strip(StrOf(GetOr(tg, "key", PStr(STR.empty)))) # << >>)
      tagParts ==
        IF IsDict(tags_val)
        THEN [i \in 1..Len(tagKeys) |-> tagKeys[i] \o <<"=">> \o FmtVal(tags_val.d[tagKeys[i]])]
        ELSE [i \in 1..Len(listed) |->
                Strip(StrOf(GetOr(listed[i], "key", PStr(STR.empty))))
                \o <<"=">> \o FmtVal(Get(listed[i], "value"))]
      parts == [i \in 1..Len(ordered) |-> kv(ordered[i])]
               \o [i \in 1..Len(others) |-> kv(others[i])]
               \o tagParts
  IN  IF parts = << >> THEN STR.dash_trace
      ELSE STR.dash_trace \o <<" ">> \o Join(<<" ">>, parts)

\* _span_is_error_like(span)
SpanIsErrorLike(span) ==
  LET tags == GetOr(span, "tags", PDict(<< >>))
      listed == DictItems(tags)
      kv_iter ==
        IF IsDict(tags) THEN {<<k, tags.d[k]>> : k \in DOMAIN tags.d}
        ELSE {p \in {<<Lower(StrOf(GetOr(listed[i], "key", PStr(STR.empty)))),
                       PStr(StrOf(GetOr(listed[i], "value", PStr(STR.empty))))>> :
                     i \in 1..Len(listed)} : p[1] # << >>}
  IN  \E p \in kv_iter :
        LET vs == Lower(Strip(StrOf(p[2])))
        IN  \/ /\ p[1] \in {STR.error, STR.span_status, STR.status_code, STR.otel_status}
               /\ \/ (p[1] = STR.error /\ vs \in {STR.true, STR.one, STR.yes})
                  \/ vs \in {STR.error, STR.two, STR.status_code_error}
            \/ AnyIn(SpanKeywords, Lower(StrOf(p[2])))

\* obj.get("message") or obj.get("line") or ""
LogMessage(obj) == Or(Or(Get(obj, "message"), Get(obj, "line")), PStr(STR.empty))

\* str(obj.get("level") or "UNKNOWN").upper()
LogLevel(obj) == Upper(StrOf(Or(Get(obj, "level"), PStr(STR.UNKNOWN))))

\* The per-pair filter as an allowlist of the five retained levels.
KeepsLogAllowlist(obj) ==
  /\ IsDict(obj)
  /\ Truthy(LogMessage(obj))
  /\ LogLevel(obj) \in {STR.ERROR, STR.WARN, STR.WARNING, STR.FATAL, STR.CRITICAL}

\* Whether the per-pair filter keeps an entry of the logs bucket: an entry that
\* is no dict raises in obj.get and is passed over, as is one without message
\* or with a level that is skipped.
KeepsLog(obj) ==
  /\ IsDict(obj)
  /\ Truthy(LogMessage(obj))
  /\ LogLevel(obj) \notin {STR.DEBUG, STR.INFO, STR.TRACE, STR.UNKNOWN}

\* f"- namespace={namespace} pod={pod} level={level} {message}"
LogLine(obj) ==
  STR.dash_ns \o StrOf(Or(Get(obj, "namespace"), PStr(STR.empty)))
  \o STR.sp_pod \o StrOf(Or(Get(obj, "pod"), PStr(STR.empty)))
  \o STR.sp_level \o LogLevel(obj)
  \o <<" ">> \o StrOf(LogMessage(obj))

\* int(os.getenv(name, "10")), 10 when the text is no integer.
EnvInt(v) ==
  LET Parsed(s) ==
        IF IsDigits(s) THEN Num(s)
        ELSE IF Len(s) > 1 /\ s[1] \in {"+", "-"} /\ IsDigits(Tail(s))
             THEN (IF s[1] = "-" THEN -1 ELSE 1) * Num(Tail(s))
        ELSE 10
  IN  Parsed(IF v = None THEN <<"1", "0">> ELSE Strip(v.s))

\* The slice that cuts nothing off.
SliceAll(seq, n) == seq

\* seq[:n]
Slice(seq, n) ==
  IF n >= 0 THEN SubSeq(seq, 1, IF n < Len(seq) THEN n ELSE Len(seq))
  ELSE SubSeq(seq, 1, IF Len(seq) + n > 0 THEN Len(seq) + n ELSE 0)

\* The text assembled from the sorted logs and the trace pool under environment e:
\* the log lines, the lines of the error-like spans, the injected line.
AssembleContext(sorted, traces, e) ==
  LET LogLines(rows) == [i \in 1..Len(rows) |-> LogLine(rows[i])]
      TraceLines(spans) == [i \in 1..Len(spans) |-> FormatSpanKv(spans[i])]
      Inject(text) ==
        IF ~Truthy(e.INJECT_VLLM_ERROR_LOG_MSG) THEN text
        ELSE IF text # << >> THEN text \o <<"\n">> \o STR.injected
        ELSE STR.injected
      WithTraces(result, trace_lines_kv) ==
        Inject(IF trace_lines_kv = << >> THEN result
               ELSE IF result # << >>
                    THEN result \o <<"\n">> \o Join(<<"\n">>, trace_lines_kv)
               ELSE Join(<<"\n">>, trace_lines_kv))
  IN  WithTraces(
        Join(<<"\n">>,
             LogLines(SelectSeq(Slice(sorted, EnvInt(e.MAX_NUM_LOG_ROWS)),
                                LAMBDA obj : Truthy(LogMessage(obj))))),
        TraceLines(Slice(SelectSeq(traces, LAMBDA s : IsDict(s) /\ SpanIsErrorLike(s)),
                         EnvInt(e.MAX_NUM_TRACE_SPANS))))

(***************************************************************************)
(* core/metrics.py: build_correlated_context_from_metrics                  *)
(***************************************************************************)

\* Most (namespace, pod) pairs extracted from the metrics.
MaxPairs == 2

\* KORREL8R_ENABLED = os.getenv("KORREL8R_ENABLED", "true").lower() == "true"
Korrel8rEnabled(v) == Lower(IF v = None THEN STR.true ELSE v.s) = STR.true

\* NamespacePodPair(namespace, pod)
NamespacePodPair(namespace, pod) == [namespace |-> namespace, pod |-> pod]

\* The pairs extract_namespace_pod_pairs_from_metrics may yield: namespace and
\* pod, a namespace alone, a pod without namespace.
PairValues ==
  { NamespacePodPair(PStr(STR.prod), PStr(STR.svc1)),
    NamespacePodPair(PStr(STR.dev), None),
    NamespacePodPair(PStr(STR.empty), PStr(STR.svc2)) }

\* The pair set in each order a loop over it may take.
PairOrders ==
  UNION {{s \in [1..n -> PairValues] : \A i, j \in 1..n : i # j => s[i] # s[j]} :
           n \in 0..MaxPairs}

\* build_korrel8r_log_query_for_vllm(namespace, pod)
BuildKorrel8rLogQueryForVllm(namespace, pod) ==
  IF Truthy(namespace) /\ Truthy(pod)
  THEN PStr(STR.k8s_pod_open \o namespace.s \o STR.k8s_name \o pod.s \o STR.k8s_close)
  ELSE IF Truthy(namespace)
       THEN PStr(STR.k8s_pod_open \o namespace.s \o STR.k8s_close)
       ELSE None

\* What the process environment may hold when the context is assembled.
Environments ==
  { [MAX_NUM_LOG_ROWS |-> None, MAX_NUM_TRACE_SPANS |-> None,
     INJECT_VLLM_ERROR_LOG_MSG |-> None],
    [MAX_NUM_LOG_ROWS |-> PStr(STR.one), MAX_NUM_TRACE_SPANS |-> PStr(STR.one),
     INJECT_VLLM_ERROR_LOG_MSG |-> PStr(STR.one)],
    [MAX_NUM_LOG_ROWS |-> PStr(STR.x), MAX_NUM_TRACE_SPANS |-> PStr(STR.minus_one),
     INJECT_VLLM_ERROR_LOG_MSG |-> PStr(STR.empty)] }

\* The buckets and the seen-set kept in module state: a call starts with what
\* the last call left in them.
AggCallKeepingState(gs, q) ==
  /\ aggPc' = "called"
  /\ goals' = gs
  /\ query' = q
  /\ goals_result' = None
  /\ idx' = 0
  /\ bucket' = "logs"
  /\ queries' = << >>
  /\ qidx' = 0
  /\ obj_result' = None
  /\ executed' = {}
  /\ failed' = {}
  /\ UNCHANGED <<aggregated, seen_trace_ids>>

\* fetch_goal_query_objects(gs, q) is entered.
AggCall(gs, q) ==
  /\ aggPc' = "called"
  /\ goals' = gs
  /\ query' = q
  /\ goals_result' = None
  /\ idx' = 0
  /\ bucket' = "logs"
  /\ queries' = << >>
  /\ qidx' = 0
  /\ obj_result' = None
  /\ aggregated' = [logs |-> << >>, traces |-> << >>]
  /\ seen_trace_ids' = {}
  /\ executed' = {}
  /\ failed' = {}

\* The context builder without the try inside the pair loop: the outer except
\* clause catches the failure of a pair.
CtxCaughtByOuterOnly(site) ==
  CASE site = "pair" -> "outer"
    [] site = "assemble" -> "outer"
    [] OTHER -> "caller"

\* The context builder with the outer except clause removed.
CtxCaughtByPairOnly(site) ==
  CASE site = "pair" -> "pair"
    [] OTHER -> "caller"

\* The try block that catches an exception raised at a site of the context
\* builder: the body of the pair loop runs in a try of its own, the sorting and
\* the assembly run in the outer try.
CtxCaughtBy(site) ==
  CASE site = "pair" -> "pair"
    [] site = "assemble" -> "outer"
    [] OTHER -> "caller"

\* An exception raised at a site: the pair is passed over, or the empty string
\* is returned, or the exception leaves the function.
CtxOnException(site) ==
  LET h == CtxCaughtBy(site)
  IN  IF h = "pair"
      THEN /\ ctxPc' = "pair"
           /\ pidx' = pidx + 1
           /\ UNCHANGED result_str
      ELSE IF h = "outer"
           THEN /\ ctxPc' = "returned"
                /\ result_str' = PStr(STR.empty)
                /\ UNCHANGED pidx
           ELSE /\ ctxPc' = "raised"
                /\ UNCHANGED <<pidx, result_str>>

\* The function is entered: a disabled flag or an empty pair set returns "".
CtxStart ==
  /\ ctxPc = "called"
  /\ IF ~korrel8r_enabled \/ pairs = << >>
     THEN /\ ctxPc' = "returned"
          /\ result_str' = PStr(STR.empty)
          /\ UNCHANGED pidx
     ELSE /\ ctxPc' = "pair"
          /\ pidx' = 1
          /\ UNCHANGED result_str
  /\ UNCHANGED <<extVars, loopRunning, backend, fnVars, batchVars, aggVars, korrel8r_enabled, pairs,
                 aggregated_logs, aggregated_traces, env>>

\* The loop takes the next pair: without a query the pair is passed over, else
\* fetch_goal_query_objects is called with the three goals.
CtxPair ==
  /\ ctxPc = "pair"
  /\ pidx <= Len(pairs)
  /\ LET query_str == BuildKorrel8rLogQueryForVllm(pairs[pidx].namespace, pairs[pidx].pod)
     IN  IF ~Truthy(query_str)
         THEN /\ pidx' = pidx + 1
              /\ UNCHANGED <<ctxPc, aggVars>>
         ELSE /\ ctxPc' = "aggregating"
              /\ AggCall(CtxGoals, query_str.s)
              /\ UNCHANGED pidx
  /\ UNCHANGED <<extVars, loopRunning, backend, fnVars, batchVars, korrel8r_enabled, pairs,
                 aggregated_logs, aggregated_traces, env, result_str>>

\* fetch_goal_query_objects has ended for the pair at hand: the kept entries of
\* its logs bucket and all of its traces bucket join the pools; when it raised
\* the pair is given up.
CtxCollect ==
  /\ ctxPc = "aggregating"
  /\ aggPc \in {"returned", "raised"}
  /\ IF aggPc = "raised"
     THEN /\ CtxOnException("pair")
          /\ UNCHANGED <<aggregated_logs, aggregated_traces>>
     ELSE /\ aggregated_logs' = aggregated_logs \o SelectSeq(aggregated.logs, KeepsLog)
          /\ aggregated_traces' = aggregated_traces \o aggregated.traces
          /\ ctxPc' = "pair"
          /\ pidx' = pidx + 1
          /\ UNCHANGED result_str
  /\ UNCHANGED <<extVars, loopRunning, backend, fnVars, batchVars, aggVars, korrel8r_enabled, pairs, env>>

\* The loop is over: the log pool is sorted and the context is assembled under
\* the environment of the moment.
CtxFinish ==
  /\ ctxPc = "pair"
  /\ pidx > Len(pairs)
  /\ LET sorted == SortLogsBySeverityThenTime(aggregated_logs)
     IN  IF IsRaise(sorted)
         THEN /\ CtxOnException("assemble")
              /\ UNCHANGED env
         ELSE \E e \in Environments :
                /\ env' = e
                /\ result_str' = PStr(AssembleContext(sorted.items, aggregated_traces, e))
                /\ ctxPc' = "returned"
                /\ UNCHANGED pidx
  /\ UNCHANGED <<extVars, loopRunning, backend, fnVars, batchVars, aggVars, korrel8r_enabled, pairs,
                 aggregated_logs, aggregated_traces>>

CtxStep ==
  \/ CtxStart
  \/ CtxPair
  \/ AggStep
  \/ CtxCollect
  \/ CtxFinish

\* One call of build_correlated_context_from_metrics.
InitCtx ==
  /\ ExtIdle
  /\ loopRunning \in BOOLEAN
  /\ backend \in {"mixed", "scenario", "bulk", "perpair", "faulty"}
  /\ syncMode = "none"
  /\ batchPc = "idle"
  /\ batchExc = "none"
  /\ trace_ids = << >>
  /\ concurrency = DefaultConcurrency
  /\ semaphore = 0
  /\ tasks = << >>
  /\ filtered = << >>
  /\ detailCalls = << >>
  /\ AggIdle
  /\ korrel8r_enabled \in {Korrel8rEnabled(v) :
                             v \in {None, PStr(STR.True), PStr(STR.false), PStr(STR.one)}}
  /\ pairs \in PairOrders
  /\ ctxPc = "called"
  /\ pidx = 0
  /\ aggregated_logs = << >>
  /\ aggregated_traces = << >>
  /\ env = None
  /\ result_str = None
  /\ FnIdle

SpecCtx == InitCtx /\ [][CtxStep]_vars

(***************************************************************************)
(* Functions called on their own                                           *)
(***************************************************************************)

\* Longest list of logs handed to the sort on its own.
MaxLogs == 3

\* Neither the batch fetch nor its sync wrapper is running.
BatchIdle ==
  /\ syncMode = "none"
  /\ batchPc = "idle"
  /\ batchExc = "none"
  /\ trace_ids = << >>
  /\ concurrency = DefaultConcurrency
  /\ semaphore = 0
  /\ tasks = << >>
  /\ filtered = << >>
  /\ detailCalls = << >>

\* Log entries of every rank: timestamps with Z, with an offset, without an
\* offset, unparseable and missing, under the keys timestamp and ts.
SortLogEntries ==
  { LogEntryAt(PStr(STR.FATAL), PStr(STR.OOM), STR.ts_aware),
    LogEntryAt(PStr(STR.CRITICAL), PStr(STR.slow), STR.ts_offset),
    LogEntryAt(PStr(STR.ERROR), PStr(STR.OOM), STR.ts_naive),
    LogEntry(PStr(STR.ERROR), PStr(STR.slow)),
    LogEntryAt(PStr(STR.Error), PStr(STR.ok), STR.x),
    LogEntryAt(PStr(STR.ERROR), PStr(STR.yes), STR.ts_aware),
    LogEntryAt(PStr(STR.WARN), PStr(STR.ok), STR.ts_naive),
    PDict([level |-> PStr(STR.WARNING), message |-> PStr(STR.slow),
           ts |-> PStr(STR.ts_naive)]),
    LogEntry(PStr(STR.INFO), PStr(STR.ok)),
    LogEntry(PStr(STR.DEBUG), PStr(STR.ok)),
    LogEntryAt(PStr(STR.TRACE), PStr(STR.ok), STR.ts_naive),
    LogEntryAt(PStr(STR.NOTICE), PStr(STR.ok), STR.ts_naive),
    LogEntry(None, PStr(STR.ok)) }

\* The arguments of a call of sort_logs_by_severity_then_time.
SortArgs ==
  {None} \cup UNION { {PList(s) : s \in [1..n -> SortLogEntries]} : n \in 0..MaxLogs }

\* One call of sort_logs_by_severity_then_time(logs): sorted(logs or [], ...).
SortCall ==
  /\ fn = "sort_logs_by_severity_then_time"
  /\ fnRet = None
  /\ fnRet' = SortLogsBySeverityThenTime(IF Truthy(fnArgs) THEN fnArgs.items ELSE << >>)
  /\ UNCHANGED <<extVars, loopRunning, backend, batchVars, aggVars, ctxVars, fn, fnArgs, fnCalls>>

\* Most spans of the trace handed to the simplifier on its own.
MaxSpans == 2

\* Raw spans: tagged error=true; tagged otel.status_code=ERROR beside a harmless
\* tag; harmless only; two error-like values under one key beside a tag that is
\* no dict; a mixed-case exception name beside a boolean value; tags that are no
\* list; no tags at all.
SimplifySpans ==
  { SpanErrorTrue,
    RawSpan(STR.s2, <<Tag(STR.otel_status, PStr(STR.ERROR)),
                      Tag(STR.http_status, PStr(STR.ok))>>),
    RawSpan(STR.s3, <<Tag(STR.http_status, PStr(STR.ok))>>),
    RawSpan(STR.s4, <<Tag(STR.event, PStr(STR.connection_failed)), PStr(STR.error),
                      Tag(STR.event, PStr(STR.panic))>>),
    RawSpan(STR.s5, <<Tag(STR.error, PBool(TRUE)),
                      Tag(STR.message, PStr(STR.NullPointerException))>>),
    PDict([spanID |-> PStr(STR.s6), tags |-> PStr(STR.error)]),
    PDict([spanId |-> PStr(STR.s1), operation |-> PStr(STR.GET)]),
    PStr(STR.error) }

\* The arguments of a call of _simplify_trace_detail_to_error_spans: a trace of
\* any spans, or a detail that is no dict, lacks the success flag or holds a
\* trace that is no dict; with and without related objects.
SimplifyArgs ==
  { [detail |-> d, related_objects |-> r] :
      d \in UNION { {TraceDetail(STR.abc123, s) : s \in [1..n -> SimplifySpans]} :
                      n \in 0..MaxSpans }
            \cup { PList(<< >>),
                   PDict([success |-> PBool(TRUE), trace |-> PStr(STR.ok)]),
                   PDict([trace |-> PDict([data |-> PList(<<PDict([traceID |-> PStr(STR.abc123),
                                              spans |-> PList(<<SpanOtelError>>)])>>)])]) },
      r \in {None, PList(<<RelCtx>>)} }

\* One call of _simplify_trace_detail_to_error_spans(detail, related_objects).
SimplifyCall ==
  /\ fn = "_simplify_trace_detail_to_error_spans"
  /\ fnRet = None
  /\ fnRet' = PList(SimplifyTraceDetailToErrorSpans(fnArgs.detail, fnArgs.related_objects))
  /\ UNCHANGED <<extVars, loopRunning, backend, batchVars, aggVars, ctxVars, fn, fnArgs, fnCalls>>

\* Most items of a raw result handed to the trace ID extraction on its own.
MaxItems == 3

\* Items of a raw result: the ID at top level, in the context, under the other
\* spelling, a number under id, a string under id, a context ID beside another
\* top-level ID, an empty context ID beside a top-level ID, a context that is no
\* dict, a number under traceID beside a string under id, and a value that is no
\* dict.
ExtractItems ==
  { RelTop, RelCtx, RelAlt, RelNoId,
    PDict([id |-> PStr(STR.ghi789)]),
    PDict([context |-> PDict([traceId |-> PStr(STR.def456)]), traceID |-> PStr(STR.abc123)]),
    PDict([context |-> PDict([traceID |-> PStr(STR.empty)]), traceID |-> PStr(STR.ghi789)]),
    PDict([context |-> PStr(STR.x), id |-> PStr(STR.abc123)]),
    PDict([traceID |-> PInt(7), id |-> PStr(STR.abc123)]),
    PStr(STR.abc123) }

\* The arguments of a call of _extract_unique_trace_ids: a list of items, a dict
\* holding such a list under data, a single dict (also one whose data is no
\* list), and values that are neither.
ExtractArgs ==
  LET lists == UNION { {PList(s) : s \in [1..n -> ExtractItems]} : n \in 0..MaxItems }
  IN  lists
      \cup { PDict([data |-> l]) : l \in lists }
      \cup { it \in ExtractItems : IsDict(it) }
      \cup { PDict([data |-> PStr(STR.x), traceId |-> PStr(STR.def456)]),
             None, PStr(STR.abc123) }

\* One call of _extract_unique_trace_ids(obj_result).
ExtractCall ==
  /\ fn = "_extract_unique_trace_ids"
  /\ fnRet = None
  /\ fnRet' = PList(ExtractUniqueTraceIds(fnArgs))
  /\ UNCHANGED <<extVars, loopRunning, backend, batchVars, aggVars, ctxVars, fn, fnArgs, fnCalls>>

FnStep ==
  \/ SortCall
  \/ SimplifyCall
  \/ ExtractCall

\* One call of one function with any of its catalogued arguments.
InitFn ==
  /\ ExtIdle
  /\ loopRunning = FALSE
  /\ backend = "any"
  /\ BatchIdle
  /\ AggIdle
  /\ CtxIdle
  /\ \/ fn = "sort_logs_by_severity_then_time" /\ fnArgs \in SortArgs
     \/ fn = "_simplify_trace_detail_to_error_spans" /\ fnArgs \in SimplifyArgs
     \/ fn = "_extract_unique_trace_ids" /\ fnArgs \in ExtractArgs
  /\ fnRet = None
  /\ fnCalls = {}

SpecFn == InitFn /\ [][FnStep]_vars

(***************************************************************************)
(* The entry points of the correlation feature:                            *)
(* core/correlation_service.py CorrelationService.correlate_alert,         *)
(* mcp_server/tools/korrel8r_tools.py korrel8r_get_correlated,             *)
(* core/metrics.py build_correlated_context_from_metrics                   *)
(***************************************************************************)

\* The four result keys of the normalized structure.
ResultKeys == {"k8s/object", "k8s/event", "loki/log", "tempo/trace"}

\* What client.find_related may return (it may also raise): dicts with results
\* and meta, without meta, without results, with some result keys only, with
\* results that are no dict, and values that are no dict.
FindRelatedResults ==
  { PDict([results |-> PDict([key \in ResultKeys |-> PList(<<RelTop>>)]),
           meta |-> PDict([depth |-> PInt(3)])]),
    PDict([results |-> PDict([key \in {"loki/log"} |-> PList(<<RelNoId>>)])]),
    PDict([meta |-> PDict([depth |-> PInt(3)])]),
    PDict(<< >>),
    PDict([results |-> None, meta |-> PDict(<< >>)]),
    PDict([results |-> PList(<<RelTop>>)]),
    PList(<<RelTop>>),
    PList(<< >>),
    None }

\* The alert a correlation starts from: labels, and whether a timestamp and a
\* time window are given.
AlertArgs ==
  { [alert_labels |-> l, alert_timestamp_iso |-> ts, window |-> w] :
      l \in {None, PDict([alertname |-> PStr(STR.OOM)])},
      ts \in {None, PStr(STR.ts_aware)},
      w \in BOOLEAN }

\* CorrelationService.is_enabled()
IsEnabled == korrel8r_enabled

\* The normalization of correlate_alert: results is raw.get("results", {}) for a
\* dict and {} otherwise, each key read with results.get(key, []), and meta is
\* raw.get("meta", {}); .get on a value that is no dict raises AttributeError.
Normalized(raw) ==
  LET results == IF IsDict(raw) THEN GetOr(raw, "results", PDict(<< >>)) ELSE PDict(<< >>)
  IN  IF ~IsDict(results) \/ ~IsDict(raw) THEN Raise("AttributeError")
      ELSE PDict([results |-> PDict([key \in ResultKeys |->
                                       GetOr(results, key, PList(<< >>))]),
                  meta |-> GetOr(raw, "meta", PDict(<< >>))])

\* correlate_alert is entered: with the flag off it returns the disabled
\* marker, else it builds the start object and calls client.find_related.
CorrelateStart ==
  /\ fn = "correlate_alert"
  /\ fnRet = None
  /\ "find_related" \notin fnCalls
  /\ IF ~IsEnabled
     THEN /\ fnRet' = PDict([error |-> PStr(STR.KORREL8R_DISABLED),
                             message |-> PStr(STR.feature_disabled)])
          /\ UNCHANGED fnCalls
     ELSE /\ fnCalls' = fnCalls \cup {"find_related"}
          /\ UNCHANGED fnRet
  /\ UNCHANGED <<extVars, loopRunning, backend, batchVars, aggVars, ctxVars, fn, fnArgs>>

\* client.find_related has ended: a failure gives the request-failed error
\* value, a payload is normalized.
CorrelateFinish ==
  /\ fn = "correlate_alert"
  /\ fnRet = None
  /\ "find_related" \in fnCalls
  /\ \E raw \in FindRelatedResults \cup {Raise("Exception")} :
        fnRet' = IF IsRaise(raw)
                 THEN PDict([error |-> PStr(STR.KORREL8R_REQUEST_FAILED),
                             message |-> PStr(STR.connection_failed)])
                 ELSE Normalized(raw)
  /\ UNCHANGED <<extVars, loopRunning, backend, batchVars, aggVars, ctxVars, fn, fnArgs, fnCalls>>

\* The arguments of korrel8r_get_correlated: goals that are a list of strings,
\* no list, or a list holding a number; a query, a blank query, no string.
ToolArgs ==
  { [goals |-> g, query |-> q] :
      g \in { PList([i \in 1..Len(CtxGoals) |-> PStr(CtxGoals[i])]),
              PList(<<PStr(STR.trace_span)>>),
              PStr(STR.trace_span),
              PList(<<PStr(STR.trace_span), PInt(7)>>) },
      q \in { PStr(STR.q_log), PStr(STR.blank), None } }

\* The response of an MCP tool: a text response holding the JSON of a value, or
\* the response of an MCPException with its error code.
McpTextResponse(value) == [k |-> "mcp_text", json |-> value]
McpErrorResponse(code) == [k |-> "mcp_error", error_code |-> code]

\* korrel8r_get_correlated is entered: goals and query are validated, then
\* fetch_goal_query_objects is called; the feature flag is not consulted.
ToolStart ==
  /\ fn = "korrel8r_get_correlated"
  /\ fnRet = None
  /\ aggPc = "idle"
  /\ IF \/ ~IsList(fnArgs.goals)
        \/ \E i \in 1..Len(fnArgs.goals.items) : ~IsStr(fnArgs.goals.items[i])
        \/ ~IsStr(fnArgs.query)
        \/ Strip(fnArgs.query.s) = << >>
     THEN /\ fnRet' = McpErrorResponse("INVALID_INPUT")
          /\ UNCHANGED <<aggVars, fnCalls>>
     ELSE /\ AggCall([i \in 1..Len(fnArgs.goals.items) |-> fnArgs.goals.items[i].s],
                     fnArgs.query.s)
          /\ fnCalls' = fnCalls \cup {"fetch_goal_query_objects"}
          /\ UNCHANGED fnRet
  /\ UNCHANGED <<extVars, loopRunning, backend, batchVars, ctxVars, fn, fnArgs>>

\* fetch_goal_query_objects has ended: its result is returned as JSON text, its
\* exception as the response of an MCPException.
ToolFinish ==
  /\ fn = "korrel8r_get_correlated"
  /\ fnRet = None
  /\ aggPc \in {"returned", "raised"}
  /\ fnRet' = IF aggPc = "raised" THEN McpErrorResponse("RESOURCE_UNAVAILABLE")
              ELSE McpTextResponse(PDict([logs |-> PList(aggregated.logs),
                                          traces |-> PList(aggregated.traces)]))
  /\ UNCHANGED <<extVars, loopRunning, backend, batchVars, aggVars, ctxVars, fn, fnArgs, fnCalls>>

EntryStep ==
  \/ CorrelateStart
  \/ CorrelateFinish
  \/ ToolStart
  \/ ToolFinish
  \/ CtxStep

\* One call of one entry point, with the feature flag on or off.
InitEntry ==
  /\ ExtIdle
  /\ loopRunning \in BOOLEAN
  /\ backend \in {"mixed", "scenario"}
  /\ BatchIdle
  /\ AggIdle
  /\ korrel8r_enabled \in BOOLEAN
  /\ pidx = 0
  /\ aggregated_logs = << >>
  /\ aggregated_traces = << >>
  /\ env = None
  /\ result_str = None
  /\ fnRet = None
  /\ fnCalls = {}
  /\ \/ /\ fn = "correlate_alert"
        /\ fnArgs \in AlertArgs
        /\ ctxPc = "idle"
        /\ pairs = << >>
     \/ /\ fn = "korrel8r_get_correlated"
        /\ fnArgs \in ToolArgs
        /\ ctxPc = "idle"
        /\ pairs = << >>
     \/ /\ fn = "none"
        /\ fnArgs = None
        /\ ctxPc = "called"
        /\ pairs \in PairOrders

SpecEntry == InitEntry /\ [][EntryStep]_vars

(***************************************************************************)
(* Properties                                                              *)
(***************************************************************************)

(***************************************************************************)
(* mcp_server/chatbots: the tool result handed back to the model           *)
(***************************************************************************)

\* The chat bots that call tools in a loop.
Bots == {"llama", "openai", "google"}

\* The longest tool result each bot hands back untruncated.
LlamaMaxToolResultLength == 8000
OpenAIMaxToolResultLength == 10000
GoogleMaxToolResultLength == 10000

MaxToolResultLength(bot) ==
  CASE bot = "llama"  -> LlamaMaxToolResultLength
    [] bot = "openai" -> OpenAIMaxToolResultLength
    [] bot = "google" -> GoogleMaxToolResultLength

\* Truncation that also cuts a result of exactly the maximum length.
TruncatedToolResultFromMax(bot, tool_result) ==
  IF IsStr(tool_result) /\ Len(tool_result.s) >= MaxToolResultLength(bot)
  THEN PStr(SubSeq(tool_result.s, 1, MaxToolResultLength(bot)) \o STR.truncated)
  ELSE tool_result

\* if isinstance(tool_result, str) and len(tool_result) > L:
\*     tool_result = tool_result[:L] + "\n... [Result truncated due to size]"
TruncatedToolResult(bot, tool_result) ==
  IF IsStr(tool_result) /\ Len(tool_result.s) > MaxToolResultLength(bot)
  THEN PStr(SubSeq(tool_result.s, 1, MaxToolResultLength(bot)) \o STR.truncated)
  ELSE tool_result

\* A text of n characters: the letter x repeated, or the digits in turn.
TextOf(n, pattern) ==
  [i \in 1..n |-> IF pattern = "x" THEN "x" ELSE Digits[(i % 10) + 1]]

\* What _route_tool_call_to_mcp may return to a bot: texts of lengths around the
\* bot's maximum, short ones, long ones.
ToolResults(bot) ==
  {PStr(TextOf(n, pattern)) :
     n \in {0, 1, 12, 100, 5000, MaxToolResultLength(bot) - 1, MaxToolResultLength(bot),
            MaxToolResultLength(bot) + 1, MaxToolResultLength(bot) + Len(STR.truncated),
            MaxToolResultLength(bot) + 2000},
     pattern \in {"x", "digits"}}

\* A bot has the result of one tool call and makes the content of the tool
\* message (of the function response, for Gemini) from it.
ToolResultCall ==
  /\ fn = "tool_result"
  /\ fnRet = None
  /\ fnRet' = TruncatedToolResult(fnArgs.bot, fnArgs.tool_result)
  /\ UNCHANGED <<extVars, loopRunning, backend, batchVars, aggVars, ctxVars, fn, fnArgs, fnCalls>>

\* One tool call of one bot has returned.
InitToolResult ==
  /\ ExtIdle
  /\ loopRunning = FALSE
  /\ backend = "any"
  /\ BatchIdle
  /\ AggIdle
  /\ CtxIdle
  /\ fn = "tool_result"
  /\ \E bot \in Bots : \E r \in ToolResults(bot) : fnArgs = [bot |-> bot, tool_result |-> r]
  /\ fnRet = None
  /\ fnCalls = {}

SpecToolResult == InitToolResult /\ [][ToolResultCall]_vars

(***************************************************************************)
(* mcp_server/chatbots: the tool calling loop of chat                      *)
(***************************************************************************)

\* max_iterations of each bot.
OpenAIMaxIterations == 30
LlamaMaxIterations == 30
GoogleMaxIterations == 10

MaxIterations(b) ==
  CASE b = "openai" -> OpenAIMaxIterations
    [] b = "llama"  -> LlamaMaxIterations
    [] b = "google" -> GoogleMaxIterations

\* Most tool calls the model requests in one turn.
MaxToolCalls == 2

\* One message of the conversation: its role, the IDs of the tool calls an
\* assistant message carries, the tool_call_id of a tool message.
Message(role, tool_calls, tool_call_id) ==
  [role |-> role, tool_calls |-> tool_calls, tool_call_id |-> tool_call_id]

\* A completion of the model: finish_reason, n tool calls (function_call parts
\* for Gemini) with IDs of their own, and the text.
Completion(finish_reason, n, content, it) ==
  [k |-> "completion", finish_reason |-> finish_reason,
   tool_calls |-> [j \in 1..n |-> <<it, j>>], content |-> content]

\* What the request of iteration it may give: an exception, for Gemini a
\* response without candidates, or a completion.
ModelResponses(b, it) ==
  {Raise("Exception")}
  \cup (IF b = "google" THEN {[k |-> "no_candidates"]} ELSE {})
  \cup {Completion(fr, n, c, it) :
          fr \in (IF b = "google" THEN {"STOP"} ELSE {"tool_calls", "stop"}),
          n \in 0..MaxToolCalls,
          c \in {None, PStr(STR.ok), PStr(STR.fenced_ok)}}

\* A turn is a tool turn whenever the completion carries tool calls.
IsToolTurnByCalls(b, r) == r.tool_calls # << >>

\* if finish_reason == 'tool_calls' and message.tool_calls (OpenAI, Llama);
\* if has_function_calls (Gemini)
IsToolTurn(b, r) ==
  IF b = "google" THEN r.tool_calls # << >>
  ELSE r.finish_reason = "tool_calls" /\ r.tool_calls # << >>

\* if len(messages) > 10: messages = [messages[0]] + messages[-8:]
Trimmed(msgs) ==
  IF Len(msgs) > 10 THEN <<msgs[1]>> \o SubSeq(msgs, Len(msgs) - 7, Len(msgs)) ELSE msgs

\* The assistant message made of a completion and the tool messages that answer
\* its tool calls.
AssistantMessage(r) == Message("assistant", r.tool_calls, None)
ToolMessages(r) == [j \in 1..Len(r.tool_calls) |-> Message("tool", << >>, r.tool_calls[j])]

\* s.endswith(p)
EndsWith(s, p) == Len(p) <= Len(s) /\ SubSeq(s, Len(s) - Len(p) + 1, Len(s)) = p

\* OpenAI: a response wrapped in a code fence loses the fence lines ("~" stands
\* for the backquote of the fence).
StripFences(text) ==
  IF StartsWith(text, STR.fence) /\ EndsWith(text, STR.fence)
  THEN LET lines == Lines(text)
           WithoutFirst(ls) == IF StartsWith(ls[1], STR.fence) THEN Tail(ls) ELSE ls
           WithoutLast(ls) ==
             IF ls # << >> /\ Strip(ls[Len(ls)]) = STR.fence
             THEN SubSeq(ls, 1, Len(ls) - 1) ELSE ls
       IN  Strip(Join(<<"\n">>, WithoutLast(WithoutFirst(lines))))
  ELSE text

\* What chat returns for a completion that ends the loop: message.content or ''
\* (OpenAI with the fences stripped); for Gemini the text of the parts, an error
\* message when there is none.
FinalResponse(b, r) ==
  LET text == IF r.content = None THEN STR.empty ELSE r.content.s
  IN  CASE b = "openai" -> PStr(StripFences(text))
        [] b = "llama"  -> PStr(text)
        [] b = "google" -> IF text = STR.empty THEN PStr(STR.err_no_text) ELSE PStr(text)

\* chat is entered: without the SDK, or without an API key (OpenAI, Gemini), it
\* returns an error message; else the conversation starts with the system
\* prompt and the question.
ChatStart ==
  /\ chatPc = "called"
  /\ \E client \in BOOLEAN, api_key \in BOOLEAN :
       IF ~client \/ (chatBot # "llama" /\ ~api_key)
       THEN /\ chatPc' = "returned"
            /\ final_response' = PStr(IF ~client THEN STR.err_sdk ELSE STR.err_api_key)
            /\ UNCHANGED messages
       ELSE /\ chatPc' = "loop"
            /\ messages' = IF chatBot = "google" THEN << >>
                            ELSE <<Message("system", << >>, None), Message("user", << >>, None)>>
            /\ UNCHANGED final_response
  /\ UNCHANGED <<cfgVars, loopRunning, backend, batchVars, aggVars, ctxVars, fnVars,
                 chatBot, iteration, function_responses, response>>

\* One iteration of the loop: the request is sent; an exception or a response
\* without candidates returns an error message; a tool turn runs the tools,
\* appends the assistant message and the tool messages, limits the history and
\* goes on; any other completion returns its text.
ChatTurn ==
  /\ chatPc = "loop"
  /\ iteration < MaxIterations(chatBot)
  /\ iteration' = iteration + 1
  /\ IF chatBot = "google" /\ iteration >= 1 /\ function_responses = << >>
     THEN /\ chatPc' = "returned"
          /\ final_response' = PStr(STR.incomplete)
          /\ UNCHANGED <<messages, function_responses, response>>
     ELSE \E r \in ModelResponses(chatBot, iteration + 1) :
            /\ response' = r
            /\ IF IsRaise(r) \/ r.k = "no_candidates"
               THEN /\ chatPc' = "returned"
                    /\ final_response' =
                         PStr(IF ~IsRaise(r) THEN STR.err_no_candidates
                              ELSE IF chatBot = "google" THEN STR.err_gemini
                              ELSE STR.err_tool_calling)
                    /\ UNCHANGED <<messages, function_responses>>
               ELSE IF IsToolTurn(chatBot, r)
                    THEN /\ messages' =
                              IF chatBot = "google" THEN messages
                              ELSE Trimmed(Append(messages, AssistantMessage(r))
                                           \o ToolMessages(r))
                         /\ function_responses' =
                              IF chatBot = "google" THEN r.tool_calls ELSE function_responses
                         /\ UNCHANGED <<chatPc, final_response>>
                    ELSE /\ messages' = IF chatBot = "google" THEN messages
                                         ELSE Append(messages, AssistantMessage(r))
                         /\ chatPc' = "returned"
                         /\ final_response' = FinalResponse(chatBot, r)
                         /\ UNCHANGED function_responses
  /\ UNCHANGED <<cfgVars, loopRunning, backend, batchVars, aggVars, ctxVars, fnVars, chatBot>>

\* The loop has run max_iterations times.
ChatMaxIterations ==
  /\ chatPc = "loop"
  /\ iteration >= MaxIterations(chatBot)
  /\ chatPc' = "returned"
  /\ final_response' = PStr(STR.incomplete)
  /\ UNCHANGED <<cfgVars, loopRunning, backend, batchVars, aggVars, ctxVars, fnVars,
                 chatBot, iteration, messages, function_responses, response>>

ChatStep ==
  \/ ChatStart
  \/ ChatTurn
  \/ ChatMaxIterations

\* One call of chat of one bot.
InitChat ==
  /\ loopRunning = FALSE
  /\ backend = "any"
  /\ BatchIdle
  /\ AggIdle
  /\ CtxIdle
  /\ FnIdle
  /\ CfgIdle
  /\ chatBot \in Bots
  /\ chatPc = "called"
  /\ iteration = 0
  /\ messages = << >>
  /\ function_responses = << >>
  /\ response = None
  /\ final_response = None

SpecChat == InitChat /\ [][ChatStep]_vars

\* chat is given the processor whenever it can take a step.
SpecChatLive == SpecChat /\ WF_vars(ChatStep)

(***************************************************************************)
(* core/model_config_manager.py: the cached model configuration            *)
(***************************************************************************)

\* _config_cache_ttl_seconds
ConfigCacheTtlSeconds == 60

\* The last reading of the clock.
MaxClock == 125

\* A configuration with the model keys of the set keys.
Config(keys) == [k |-> "dict", keys |-> keys]

\* load_model_config_from_env: the models of MODEL_CONFIG.
DefaultConfig == Config({"default"})

\* The ConfigMap holds a configuration, holds text that is no JSON, or is absent.
ConfigMaps == {[k |-> "absent"], [k |-> "str"], Config({"openai/user"})}

\* How the GET of the ConfigMap may end: 404 only when it is absent, 200 only
\* when it exists, a server error or a network error at any time; without
\* NAMESPACE no request is sent.
ReadOutcomes(ns, cm) ==
  IF ~ns THEN {"no_namespace"}
  ELSE {"status_500", "network_error"}
       \cup (CASE cm.k = "absent" -> {"status_404"}
               [] cm.k = "str"    -> {"unparseable"}
               [] cm.k = "dict"   -> {"status_200"})

\* load_model_config_from_configmap: the configuration read, None for every
\* other outcome.
ConfigFromConfigMap(outcome, cm) == IF outcome = "status_200" THEN cm ELSE None

\* How create_configmap_from_defaults may end: the POST creates the ConfigMap
\* only when it is absent and is refused with 409 when it exists; without
\* NAMESPACE no request is sent.
CreateOutcomes(ns, cm) ==
  IF ~ns THEN {"no_namespace"}
  ELSE {"status_500", "network_error"}
       \cup (IF cm.k = "absent" THEN {"status_201"} ELSE {"status_409"})

\* The cache is refreshed when it is as old as the TTL.
ShouldRefreshFromTtl(force_refresh, rc, last, now) ==
  \/ force_refresh
  \/ rc = None
  \/ last = None
  \/ now - last.n >= ConfigCacheTtlSeconds

\* should_refresh of get_model_config
ShouldRefresh(force_refresh, rc, last, now) ==
  \/ force_refresh
  \/ rc = None
  \/ last = None
  \/ now - last.n > ConfigCacheTtlSeconds

\* The locals of a call of get_model_config: read and create are the outcomes
\* of the two requests of load_runtime_model_config ("none": not made), loads
\* counts its calls.
GetLocals(force_refresh) ==
  [force_refresh |-> force_refresh, now |-> 0, loads |-> 0, read |-> "none",
   create |-> "none", loaded |-> None, result |-> None]

\* A thread calls get_model_config(force_refresh) and waits for _config_lock.
GetCall(t) ==
  /\ cfgPc[t] = "idle"
  /\ \E force_refresh \in BOOLEAN :
       cfgLocal' = [cfgLocal EXCEPT ![t] = GetLocals(force_refresh)]
  /\ cfgPc' = [cfgPc EXCEPT ![t] = "acquire"]
  /\ UNCHANGED <<NAMESPACE, configmap, runtime_config, config_last_updated, config_lock,
                 clock>>

\* with _config_lock: the thread takes the free lock and reads the clock; with
\* nothing to refresh it returns the cached configuration and frees the lock.
GetAcquire(t) ==
  /\ cfgPc[t] = "acquire"
  /\ config_lock = 0
  /\ IF ShouldRefresh(cfgLocal[t].force_refresh, runtime_config, config_last_updated, clock)
     THEN /\ config_lock' = t
          /\ cfgPc' = [cfgPc EXCEPT ![t] = "load"]
          /\ cfgLocal' = [cfgLocal EXCEPT ![t].now = clock]
     ELSE /\ config_lock' = 0
          /\ cfgPc' = [cfgPc EXCEPT ![t] = "idle"]
          /\ cfgLocal' = [cfgLocal EXCEPT ![t].now = clock, ![t].result = runtime_config]
  /\ UNCHANGED <<NAMESPACE, configmap, runtime_config, config_last_updated, clock>>

\* load_runtime_model_config begins: the ConfigMap is read; a configuration
\* read is what it returns.
LoadRead(t) ==
  /\ cfgPc[t] = "load"
  /\ \E outcome \in ReadOutcomes(NAMESPACE, configmap) :
       LET configmap_config == ConfigFromConfigMap(outcome, configmap)
       IN  /\ cfgLocal' = [cfgLocal EXCEPT ![t].loads = @ + 1, ![t].read = outcome,
                                           ![t].loaded = configmap_config]
           /\ cfgPc' = [cfgPc EXCEPT ![t] =
                          IF configmap_config # None THEN "store" ELSE "create"]
  /\ UNCHANGED <<NAMESPACE, configmap, runtime_config, config_last_updated, config_lock,
                 clock>>

\* load_runtime_model_config got None: create_configmap_from_defaults is called,
\* and the defaults are returned whether it succeeds or not.
LoadCreate(t) ==
  /\ cfgPc[t] = "create"
  /\ \E outcome \in CreateOutcomes(NAMESPACE, configmap) :
       /\ cfgLocal' = [cfgLocal EXCEPT ![t].create = outcome, ![t].loaded = DefaultConfig]
       /\ configmap' = IF outcome = "status_201" THEN DefaultConfig ELSE configmap
  /\ cfgPc' = [cfgPc EXCEPT ![t] = "store"]
  /\ UNCHANGED <<NAMESPACE, runtime_config, config_last_updated, config_lock, clock>>

\* The loaded configuration is cached with the time read before the load and
\* returned; the lock is freed.
GetStore(t) ==
  /\ cfgPc[t] = "store"
  /\ runtime_config' = cfgLocal[t].loaded
  /\ config_last_updated' = PInt(cfgLocal[t].now)
  /\ cfgLocal' = [cfgLocal EXCEPT ![t].result = cfgLocal[t].loaded]
  /\ config_lock' = 0
  /\ cfgPc' = [cfgPc EXCEPT ![t] = "idle"]
  /\ UNCHANGED <<NAMESPACE, configmap, clock>>

\* Time passes: as long as the cache lives, or a second more.
Tick ==
  /\ \E d \in {ConfigCacheTtlSeconds, ConfigCacheTtlSeconds + 1} : clock + d <= MaxClock /\ clock' = clock + d
  /\ UNCHANGED <<NAMESPACE, configmap, runtime_config, config_last_updated, config_lock,
                 cfgPc, cfgLocal>>

CfgStep ==
  /\ \/ \E t \in Threads : GetCall(t)
     \/ \E t \in Threads : GetAcquire(t)
     \/ \E t \in Threads : LoadRead(t)
     \/ \E t \in Threads : LoadCreate(t)
     \/ \E t \in Threads : GetStore(t)
     \/ Tick
  /\ UNCHANGED <<chatVars, loopRunning, backend, batchVars, aggVars, ctxVars, fnVars>>

\* Two threads call get_model_config again and again while time passes.
InitCfg ==
  /\ loopRunning = FALSE
  /\ backend = "any"
  /\ BatchIdle
  /\ AggIdle
  /\ CtxIdle
  /\ FnIdle
  /\ ChatIdle
  /\ NAMESPACE \in BOOLEAN
  /\ configmap \in ConfigMaps
  /\ runtime_config = None
  /\ config_last_updated = None
  /\ config_lock = 0
  /\ clock = 0
  /\ cfgPc = [t \in Threads |-> "idle"]
  /\ cfgLocal = [t \in Threads |-> GetLocals(FALSE)]

SpecCfg == InitCfg /\ [][CfgStep]_vars

(***************************************************************************)
(* mcp_server/tools/model_config_tools.py: add_model_to_config             *)
(***************************************************************************)

\* model_key of each thread's call: the two calls add different models.
ModelKey(t) == IF t = 1 THEN "openai/a" ELSE "openai/b"

\* The locals of a call of add_model_to_config: status is the status of the GET
\* ("none" before it), current_config the configuration to save, success what
\* the response reports.
AddLocals == [status |-> "none", current_config |-> None, success |-> FALSE]

\* Up to the GET of the ConfigMap: without NAMESPACE, on a status other than
\* 200 and 404, on a network error and on unparseable content an error is
\* returned; else current_config is the content read ({} for 404) with the
\* model added.
AddGet(t) ==
  /\ cfgPc[t] = "idle"
  /\ \E outcome \in ReadOutcomes(NAMESPACE, configmap) :
       IF outcome \in {"status_200", "status_404"}
       THEN /\ cfgPc' = [cfgPc EXCEPT ![t] = "save"]
            /\ cfgLocal' = [cfgLocal EXCEPT ![t].status = outcome,
                              ![t].current_config =
                                 Config((IF outcome = "status_200" THEN configmap.keys ELSE {})
                                        \cup {ModelKey(t)})]
       ELSE /\ cfgPc' = [cfgPc EXCEPT ![t] = "done"]
            /\ cfgLocal' = [cfgLocal EXCEPT ![t].status = outcome]
  /\ UNCHANGED <<NAMESPACE, configmap, runtime_config, config_last_updated, config_lock,
                 clock>>

\* How the request that saves the ConfigMap may end: the POST (after a 404)
\* creates it when it is absent and is refused when it exists; the PUT, which
\* carries no resourceVersion, replaces whatever exists and finds nothing to
\* replace when it is absent.
SaveOutcomes(status, cm) ==
  {"status_500", "network_error"}
  \cup (IF status = "status_404"
        THEN (IF cm.k = "absent" THEN {"status_201"} ELSE {"status_409"})
        ELSE (IF cm.k = "absent" THEN {"status_404"} ELSE {"status_200"}))

\* The ConfigMap is saved with current_config and the response is returned:
\* success for the statuses 200 and 201.
AddSave(t) ==
  /\ cfgPc[t] = "save"
  /\ \E outcome \in SaveOutcomes(cfgLocal[t].status, configmap) :
       LET saved == outcome \in {"status_200", "status_201"}
       IN  /\ configmap' = IF saved THEN cfgLocal[t].current_config ELSE configmap
           /\ cfgLocal' = [cfgLocal EXCEPT ![t].success = saved]
  /\ cfgPc' = [cfgPc EXCEPT ![t] = "done"]
  /\ UNCHANGED <<NAMESPACE, runtime_config, config_last_updated, config_lock, clock>>

AddStep ==
  /\ \/ \E t \in Threads : AddGet(t)
     \/ \E t \in Threads : AddSave(t)
  /\ UNCHANGED <<chatVars, loopRunning, backend, batchVars, aggVars, ctxVars, fnVars>>

\* Two threads call add_model_to_config, each once, for different models.
InitAdd ==
  /\ loopRunning = FALSE
  /\ backend = "any"
  /\ BatchIdle
  /\ AggIdle
  /\ CtxIdle
  /\ FnIdle
  /\ ChatIdle
  /\ NAMESPACE \in BOOLEAN
  /\ configmap \in ConfigMaps
  /\ runtime_config = None
  /\ config_last_updated = None
  /\ config_lock = 0
  /\ clock = 0
  /\ cfgPc = [t \in Threads |-> "idle"]
  /\ cfgLocal = [t \in Threads |-> AddLocals]

SpecAdd == InitAdd /\ [][AddStep]_vars

(***************************************************************************)
(* fetch_goal_query_objects called twice with the same arguments           *)
(***************************************************************************)

\* The backends that answer one request always in the same way.
DeterministicBackends == {"scenario", "bulk", "perpair", "faulty"}

\* The start queries of the two calls: one of prod, one that names dev.
StartQueries == {STR.q_log, STR.dev}

\* What a caller observes of a finished call: how it ended, the buckets it
\* returned, and the get_trace_details calls issued so far.
Observed == [pc |-> aggPc, aggregated |-> aggregated, calls |-> detailCalls]

\* The first call has ended: the caller keeps what it observed and calls
\* fetch_goal_query_objects again with the same goals and query.
SecondCall ==
  /\ fn = "fetch_goal_query_objects"
  /\ fnRet = None
  /\ aggPc \in {"returned", "raised"}
  /\ fnRet' = Observed
  /\ AggCall(goals, query)
  /\ UNCHANGED <<extVars, loopRunning, backend, ctxVars, batchVars, fn, fnArgs, fnCalls>>

TwiceStep ==
  \/ SecondCall
  \/ AggStep

\* Two calls in a row, the first about to start.
InitTwice ==
  /\ ExtIdle
  /\ loopRunning \in BOOLEAN
  /\ backend \in DeterministicBackends
  /\ BatchIdle
  /\ CtxIdle
  /\ fn = "fetch_goal_query_objects"
  /\ fnRet = None
  /\ fnCalls = {}
  /\ aggPc = "called"
  /\ goals \in GoalArgs
  /\ query \in StartQueries
  /\ fnArgs = PList(<<PList([i \in 1..Len(goals) |-> PStr(goals[i])]), PStr(query)>>)
  /\ goals_result = None
  /\ idx = 0
  /\ bucket = "logs"
  /\ queries = << >>
  /\ qidx = 0
  /\ obj_result = None
  /\ aggregated = [logs |-> << >>, traces |-> << >>]
  /\ seen_trace_ids = {}
  /\ executed = {}
  /\ failed = {}

SpecTwice == InitTwice /\ [][TwiceStep]_vars


\* a is a prefix of b
IsPrefix(a, b) == Len(a) <= Len(b) /\ SubSeq(b, 1, Len(a)) = a

\* C1: within one call of fetch_goal_query_objects, get_trace_details is issued
\* at most once per distinct trace ID, whatever the backend returns.
C1_AtMostOneDetailFetchPerTraceId ==
  \A tid \in DOMAIN detailCalls : detailCalls[tid] <= 1

\* C1 witness: the second query of a trace goal returned the already fetched
\* first trace ID again beside a new one, and only the new one is being fetched.
C1_Witness ==
  /\ aggPc = "fetching"
  /\ qidx = 2
  /\ InSeq(TraceId(1), ExtractUniqueTraceIds(obj_result))
  /\ trace_ids = <<TraceId(2)>>
  /\ CallsOf(TraceId(1)) = 1
  /\ CallsOf(TraceId(2)) = 1

\* C2: the batch fetch never has more get_trace_details calls in flight than
\* its concurrency cap, a cap below 1 counting as 1.
C2_InFlightWithinCap ==
  Cardinality(InFlight) <= (IF concurrency < 1 THEN 1 ELSE concurrency)

\* C2 witness: three IDs under a cap of 2: two calls in flight, the third waits.
C2_Witness ==
  /\ batchPc = "running"
  /\ concurrency = 2
  /\ Len(trace_ids) = 3
  /\ Cardinality(InFlight) = 2
  /\ \E i \in DOMAIN tasks : tasks[i].pc = "acquire"

\* A response that counts: a dict with the success flag that passes the error
\* predicate.
C3_Counts(resp) ==
  /\ ~IsRaise(resp)
  /\ IsDict(resp)
  /\ Truthy(Get(resp, "success"))
  /\ TraceDetailContainsError(resp)

\* C3: in one batch a fetch that times out, raises or answers with a malformed
\* or unsuccessful payload adds nothing and does not abort the batch: the batch
\* raises only before any fetch started, it can return as soon as every fetch
\* has finished, and it returns exactly the responses that count, in task order.
C3_BestEffortBatch ==
  /\ batchPc = "raised" => tasks = << >>
  /\ (batchPc = "running" /\ \A i \in DOMAIN tasks : tasks[i].pc = "done")
       => ENABLED BatchGather
  /\ (batchPc = "returned" /\ trace_ids # << >>)
       => filtered = SelectSeq([i \in DOMAIN tasks |-> tasks[i].resp], C3_Counts)

\* C3 witness: a returned batch of three fetches of which one raised or timed
\* out, one answered without the success flag and one counts.
C3_Witness ==
  /\ batchPc = "returned"
  /\ Len(trace_ids) = 3
  /\ \E i \in DOMAIN tasks : IsRaise(tasks[i].resp)
  /\ \E i \in DOMAIN tasks :
       IsDict(tasks[i].resp) /\ ~Truthy(Get(tasks[i].resp, "success"))
  /\ Len(filtered) = 1

\* The queries of goals_result that carry a query string, as (idx, qidx).
ExecutableQueries ==
  IF ~IsList(goals_result) THEN {}
  ELSE {p \in (1..Len(goals_result.items)) \X (1..3) :
          LET qs == QueryItems(QueriesOf(goals_result.items[p[1]]))
          IN  Iterable(QueriesOf(goals_result.items[p[1]]))
              /\ p[2] <= Len(qs)
              /\ Truthy(QueryString(qs[p[2]]))}

\* C4: a failing query does not stop the pass: when the pass returns, every
\* query that carries a query string has been executed although some failed,
\* no step removes an item from either bucket, and the pass does not raise.
C4_QueryFailureIsSkipped ==
  /\ [](failed # {} => aggPc # "raised")
  /\ []((failed # {} /\ aggPc = "returned") => ExecutableQueries \subseteq executed)
  /\ [][/\ IsPrefix(aggregated.logs, aggregated'.logs)
        /\ IsPrefix(aggregated.traces, aggregated'.traces)]_vars

\* C4 witness: the first query of the second goal failed, its second query was
\* executed all the same, and the pass returned with items in both buckets.
C4_Witness ==
  /\ aggPc = "returned"
  /\ failed = {<<2, 1>>}
  /\ <<2, 2>> \in executed
  /\ aggregated.logs # << >>
  /\ aggregated.traces # << >>

\* C5 as claimed: fetch_goal_query_objects never raises to its caller.
C5_NeverRaises == aggPc # "raised"

\* C5 amended: fetch_goal_query_objects raises only when list_goals itself
\* fails, before any goal result is processed; once list_goals has returned,
\* every failure is absorbed and the call returns both buckets.
C5_RaisesOnlyFromListGoals ==
  /\ aggPc = "raised" => (idx = 0 /\ executed = {} /\ failed = {})
  /\ idx > 0 => aggPc # "raised"
  /\ aggPc = "returned" => DOMAIN aggregated = {"logs", "traces"}

\* C5 witness: the pass returned although queries failed after goal resolution.
C5_Witness ==
  /\ aggPc = "returned"
  /\ failed # {}
  /\ executed # failed

\* The goal name as the claim words it: the first of goal, class, name that is
\* set, else the requested goal at the same position.
C7_Name ==
  LET item == goals_result.items[idx]
      explicit == IF ~IsDict(item) THEN None
                  ELSE IF Truthy(Get(item, "goal")) THEN Get(item, "goal")
                  ELSE IF Truthy(Get(item, "class")) THEN Get(item, "class")
                  ELSE IF Truthy(Get(item, "name")) THEN Get(item, "name")
                  ELSE None
  IN  IF explicit # None THEN explicit
      ELSE IF idx <= Len(goals) THEN PStr(goals[idx]) ELSE None

\* A goal result is being processed.
C7_InGoal == aggPc \in {"query", "fetching"}

\* C7 as claimed: the bucket is traces exactly when the lowercased text before
\* the first ':' of the goal name is 'trace'.
C7_TracesIffLowercasedPrefix ==
  C7_InGoal =>
    (bucket = "traces"
       <=> (/\ IsStr(C7_Name)
            /\ HasChar(C7_Name.s, ":")
            /\ Lower(BeforeFirst(C7_Name.s, ":")) = STR.trace))

\* C7 amended: the bucket is traces exactly when the text before the first ':'
\* of the goal name, stripped of surrounding whitespace and lowercased, is
\* 'trace'; every other name routes to logs, and a step adds items only to the
\* bucket of the goal result at hand.
C7_TracesIffStrippedLowercasedPrefix ==
  /\ [](C7_InGoal =>
          /\ bucket \in {"logs", "traces"}
          /\ bucket = "traces"
               <=> (/\ IsStr(C7_Name)
                    /\ HasChar(C7_Name.s, ":")
                    /\ Lower(Strip(BeforeFirst(C7_Name.s, ":"))) = STR.trace))
  /\ [][/\ aggregated'.logs # aggregated.logs => (C7_InGoal /\ bucket = "logs")
        /\ aggregated'.traces # aggregated.traces => (C7_InGoal /\ bucket = "traces")]_vars

\* C7 witness: the result named metric:foo (field class) went to the logs
\* bucket and the result named " Trace :span" (field name) has put a span into
\* the traces bucket.
C7_Witness ==
  /\ aggPc = "query"
  /\ idx = 2
  /\ IsDict(goals_result.items[1])
  /\ Get(goals_result.items[1], "class") = PStr(STR.metric_foo)
  /\ C7_Name = PStr(STR.Trace_span)
  /\ bucket = "traces"
  /\ aggregated.logs # << >>
  /\ aggregated.traces # << >>

\* An item with the shape of a simplified span.
IsSimplifiedSpan(x) ==
  /\ IsDict(x)
  /\ {"traceID", "spanID", "operationName", "startTime", "duration", "tags"}
       \subseteq DOMAIN x.d
  /\ IsDict(x.d["tags"])

\* C8: the traces bucket holds nothing but simplified spans of fetched trace
\* details: no raw query object ever enters it.
C8_TracesHoldOnlySpans ==
  \A i \in 1..Len(aggregated.traces) : IsSimplifiedSpan(aggregated.traces[i])

\* C6: build_correlated_context_from_metrics never raises; with the flag off or
\* with no pair it returns "" and the correlation backend is never called; when
\* sorting the log pool fails (a failure outside the per-pair loop) it returns "".
C6_ContextNeverRaises ==
  /\ ctxPc # "raised"
  /\ (~korrel8r_enabled \/ pairs = << >>)
       => /\ aggPc = "idle"
          /\ executed = {}
          /\ detailCalls = << >>
          /\ (ctxPc = "returned" => result_str = PStr(STR.empty))
  /\ (ctxPc = "returned" /\ IsRaise(SortLogsBySeverityThenTime(aggregated_logs)))
       => result_str = PStr(STR.empty)

\* C6 witness: two pairs were aggregated, the pool holds entries of one severity
\* whose timestamps cannot be compared, sorting raised and "" was returned.
C6_Witness ==
  /\ ctxPc = "returned"
  /\ korrel8r_enabled
  /\ Len(pairs) = 2
  /\ Len(aggregated_logs) >= 2
  /\ IsRaise(SortLogsBySeverityThenTime(aggregated_logs))
  /\ result_str = PStr(STR.empty)

\* C9 as claimed: for the pair (prod, svc-1), a backend yielding the ERROR/OOM log
\* entry and trace abc123 whose detail holds one span tagged error=true, and the
\* default environment, the context is the log line
\* "- namespace=prod pod=svc-1 level=ERROR OOM" followed by one trace line that
\* begins "- trace traceID=abc123" and contains error=true.
C9_ScenarioRendersErrorSpan ==
  (/\ ctxPc = "returned"
   /\ backend = "scenario"
   /\ korrel8r_enabled
   /\ pairs = <<NamespacePodPair(PStr(STR.prod), PStr(STR.svc1))>>
   /\ env = [MAX_NUM_LOG_ROWS |-> None, MAX_NUM_TRACE_SPANS |-> None,
             INJECT_VLLM_ERROR_LOG_MSG |-> None])
  => /\ Len(Lines(result_str.s)) = 2
     /\ Lines(result_str.s)[1] = STR.oom_line
     /\ StartsWith(Lines(result_str.s)[2], STR.trace_abc)
     /\ Contains(STR.error_true, Lines(result_str.s)[2])

\* The level of a pool entry as the claim reads it: uppercased, UNKNOWN when the
\* entry has none.
C10_Level(obj) ==
  IF Truthy(Get(obj, "level")) THEN Upper(StrOf(Get(obj, "level"))) ELSE STR.UNKNOWN

\* C10 as claimed: every entry of the log pool has a non-empty message (or line)
\* and an uppercased level among ERROR, WARN, WARNING, FATAL, CRITICAL.
C10_PoolHoldsOnlyRetainedLevels ==
  \A i \in 1..Len(aggregated_logs) :
     /\ (Truthy(Get(aggregated_logs[i], "message"))
           \/ Truthy(Get(aggregated_logs[i], "line")))
     /\ C10_Level(aggregated_logs[i])
          \in {STR.ERROR, STR.WARN, STR.WARNING, STR.FATAL, STR.CRITICAL}

\* An entry of a logs bucket that the amended claim lets into the pool.
C10_Survives(obj) ==
  /\ IsDict(obj)
  /\ (Truthy(Get(obj, "message")) \/ Truthy(Get(obj, "line")))
  /\ C10_Level(obj) \notin {STR.DEBUG, STR.INFO, STR.TRACE, STR.UNKNOWN}

\* C10 amended: the log pool consists exactly of the entries of the aggregated
\* logs buckets, in bucket order, that are dicts with a non-empty message (or
\* line) and whose uppercased level is none of DEBUG, INFO, TRACE, UNKNOWN, a
\* missing level counting as UNKNOWN; a level outside both lists survives.
C10_PoolIsDenylistFiltered ==
  /\ [](\A i \in 1..Len(aggregated_logs) : C10_Survives(aggregated_logs[i]))
  /\ [][aggregated_logs' =
          IF ctxPc = "aggregating" /\ ctxPc' = "pair" /\ aggPc = "returned"
          THEN aggregated_logs \o SelectSeq(aggregated.logs, C10_Survives)
          ELSE aggregated_logs]_vars

\* C10 witness: a pass returned entries of level INFO, Error, NOTICE and one of
\* no level; the pool took the Error and the NOTICE entry.
C10_Witness ==
  /\ ctxPc = "pair"
  /\ pidx = 2
  /\ Len(aggregated.logs) = 4
  /\ Len(aggregated_logs) = 2
  /\ \E i \in 1..4 : Get(aggregated.logs[i], "level") = PStr(STR.INFO)
  /\ \E i \in 1..4 : Get(aggregated.logs[i], "level") = None
  /\ Get(aggregated_logs[1], "level") = PStr(STR.Error)
  /\ Get(aggregated_logs[2], "level") = PStr(STR.NOTICE)

\* The severity rank the claims give a log entry.
C11_Rank(log) ==
  LET level == IF Truthy(Get(log, "level")) THEN Upper(StrOf(Get(log, "level")))
               ELSE STR.UNKNOWN
  IN  IF level \in {STR.FATAL, STR.CRITICAL} THEN 7
      ELSE IF level = STR.ERROR THEN 6
      ELSE IF level \in {STR.WARN, STR.WARNING} THEN 5
      ELSE IF level = STR.INFO THEN 3
      ELSE IF level = STR.DEBUG THEN 2
      ELSE IF level = STR.TRACE THEN 1
      ELSE 0

\* The instant of a log entry as <<seconds, microseconds>>, or << >> when its
\* timestamp is missing or unparseable.
C11_Instant(log) ==
  LET ts == IF Truthy(Get(log, "timestamp")) THEN StrOf(Get(log, "timestamp"))
            ELSE IF Truthy(Get(log, "ts")) THEN StrOf(Get(log, "ts"))
            ELSE STR.empty
      At(dt) == IF dt = None THEN << >> ELSE <<dt.t, dt.us>>
  IN  At(ParseTs(ts))

\* Entry a must not come after entry b: a higher rank, or within one rank a
\* newer instant, an entry without a valid timestamp being older than any
\* entry with one.
C11_Before(a, b) ==
  \/ C11_Rank(a) > C11_Rank(b)
  \/ /\ C11_Rank(a) = C11_Rank(b)
     /\ C11_Instant(a) # << >>
     /\ \/ C11_Instant(b) = << >>
        \/ C11_Instant(a)[1] > C11_Instant(b)[1]
        \/ /\ C11_Instant(a)[1] = C11_Instant(b)[1]
           /\ C11_Instant(a)[2] > C11_Instant(b)[2]

\* out is the input rearranged so that no entry stands behind one it must come
\* before, entries that are not ordered against each other keeping input order.
C11_OrderedPermutation(in, out) ==
  /\ Len(out) = Len(in)
  /\ \E p \in [1..Len(in) -> 1..Len(in)] :
        /\ \A i, j \in 1..Len(in) : i # j => p[i] # p[j]
        /\ \A i \in 1..Len(in) : out[i] = in[p[i]]
        /\ \A i, j \in 1..Len(in) :
              i < j => /\ ~C11_Before(out[j], out[i])
                       /\ (~C11_Before(out[i], out[j]) => p[i] < p[j])

\* The logs handed to the sort on its own.
C11_Input == IF Truthy(fnArgs) THEN fnArgs.items ELSE << >>

C12_SortNeverRaises ==
  (fn = "sort_logs_by_severity_then_time") => ~IsRaise(fnRet)

\* Whether a tag value contains an error-like keyword.
C13_ErrorLike(val) ==
  \E kw \in {STR.error, STR.exception, STR.fatal, STR.panic, STR.fail, STR.critical} :
     Contains(kw, Lower(StrOf(val)))

\* The tags of a raw span that are dicts with an error-like value.
C13_ErrorTags(sp) ==
  IF IsDict(sp) /\ "tags" \in DOMAIN sp.d /\ IsList(sp.d.tags)
  THEN SelectSeq(sp.d.tags.items,
                 LAMBDA tg : IsDict(tg) /\ "value" \in DOMAIN tg.d
                             /\ C13_ErrorLike(tg.d.value))
  ELSE << >>

\* The raw spans of the detail handed to the simplifier that have such a tag.
C13_ErrorSpans ==
  LET d == fnArgs.detail
  IN  IF /\ IsDict(d)
         /\ "success" \in DOMAIN d.d /\ Truthy(d.d.success)
         /\ "trace" \in DOMAIN d.d /\ IsDict(d.d.trace)
      THEN SelectSeq(d.d.trace.d.data.items[1].d.spans.items,
                     LAMBDA sp : C13_ErrorTags(sp) # << >>)
      ELSE << >>

\* C13: _simplify_trace_detail_to_error_spans emits exactly one span, in order,
\* for each input span that has a tag whose value contains an error-like
\* keyword; the tags of an emitted span are exactly the keys of those input tags,
\* each with the value of such a tag, and are never empty.
C13_EmitsOnlyErrorTaggedSpans ==
  (fn = "_simplify_trace_detail_to_error_spans" /\ fnRet # None)
    => /\ IsList(fnRet)
       /\ Len(fnRet.items) = Len(C13_ErrorSpans)
       /\ \A i \in 1..Len(fnRet.items) :
            LET out == fnRet.items[i]
                tags == C13_ErrorTags(C13_ErrorSpans[i])
            IN  /\ Get(out, "spanID") = Get(C13_ErrorSpans[i], "spanID")
                /\ IsDict(Get(out, "tags"))
                /\ DOMAIN out.d.tags.d # {}
                /\ DOMAIN out.d.tags.d = {StrOf(tags[j].d.key) : j \in 1..Len(tags)}
                /\ \A key \in DOMAIN out.d.tags.d :
                      \E j \in 1..Len(tags) : /\ StrOf(tags[j].d.key) = key
                                              /\ tags[j].d.value = out.d.tags.d[key]

\* C13 witness: a trace of a harmless span and a span tagged
\* otel.status_code=ERROR beside a harmless tag was simplified to one span that
\* keeps the one tag.
C13_Witness ==
  /\ fn = "_simplify_trace_detail_to_error_spans"
  /\ IsList(fnRet)
  /\ IsDict(fnArgs.detail)
  /\ "trace" \in DOMAIN fnArgs.detail.d
  /\ IsDict(fnArgs.detail.d.trace)
  /\ Len(fnArgs.detail.d.trace.d.data.items[1].d.spans.items) = 2
  /\ Len(fnRet.items) = 1
  /\ Get(fnRet.items[1], "spanID") = PStr(STR.s2)
  /\ fnRet.items[1].d.tags = PDict(STR.otel_status :> PStr(STR.ERROR))

\* The items of a raw result: the dicts of a list, the dicts of the list under
\* data of a dict, else the dict itself.
C14_Items ==
  IF IsList(fnArgs) THEN SelectSeq(fnArgs.items, IsDict)
  ELSE IF IsDict(fnArgs)
       THEN IF "data" \in DOMAIN fnArgs.d /\ IsList(fnArgs.d.data)
            THEN SelectSeq(fnArgs.d.data.items, IsDict)
            ELSE <<fnArgs>>
       ELSE << >>

\* The value at a path of one or two keys, None when the path does not exist.
C14_At(it, path) ==
  IF path[1] \notin DOMAIN it.d THEN None
  ELSE IF Len(path) = 1 THEN it.d[path[1]]
  ELSE IF IsDict(it.d[path[1]]) /\ path[2] \in DOMAIN it.d[path[1]].d
       THEN it.d[path[1]].d[path[2]]
       ELSE None

\* The five places an item's ID is looked for, in order.
C14_Paths ==
  << <<"context", "traceID">>, <<"context", "traceId">>,
     <<"traceID">>, <<"traceId">>, <<"id">> >>

\* The ID of an item: the value at the first place that holds something
\* non-empty, None when none does.
C14_Id(it) ==
  LET found == {n \in 1..5 : Truthy(C14_At(it, C14_Paths[n]))}
  IN  IF found = {} THEN None
      ELSE C14_At(it, C14_Paths[CHOOSE n \in found : \A m \in found : n <= m])

\* The positions of the items whose ID is a non-empty string.
C14_Usable == {i \in 1..Len(C14_Items) : IsStr(C14_Id(C14_Items[i]))}

\* C14: for every shape of raw result _extract_unique_trace_ids returns the
\* non-empty string IDs of the items (context.traceID, else context.traceId, else
\* traceID, else traceId, else id), each once, in the order of their first
\* appearance; items without such an ID contribute nothing.
C14_UniqueIdsInFirstSeenOrder ==
  (fn = "_extract_unique_trace_ids" /\ fnRet # None)
    => /\ IsList(fnRet)
       /\ \A a \in 1..Len(fnRet.items) : fnRet.items[a] # << >>
       /\ \A a, b \in 1..Len(fnRet.items) : a # b => fnRet.items[a] # fnRet.items[b]
       /\ {fnRet.items[a] : a \in 1..Len(fnRet.items)}
            = {C14_Id(C14_Items[i]).s : i \in C14_Usable}
       /\ \A a, b \in 1..Len(fnRet.items) :
            a < b => \E i \in C14_Usable :
                        /\ C14_Id(C14_Items[i]).s = fnRet.items[a]
                        /\ \A j \in C14_Usable :
                              C14_Id(C14_Items[j]).s = fnRet.items[b] => i < j

\* C14 witness: a dict holding under data three items, the first with its ID in
\* the context beside another top-level ID, the second without a usable ID, the
\* third repeating the first ID at top level, gave that one ID once.
C14_Witness ==
  /\ fn = "_extract_unique_trace_ids"
  /\ IsList(fnRet)
  /\ IsDict(fnArgs)
  /\ Len(C14_Items) = 3
  /\ C14_At(C14_Items[1], <<"context", "traceId">>) = PStr(STR.def456)
  /\ C14_At(C14_Items[1], <<"traceID">>) = PStr(STR.abc123)
  /\ C14_Usable = {1, 3}
  /\ C14_Items[3] = RelAlt
  /\ fnRet.items = <<STR.def456>>

\* The lines of the returned context.
C15_Lines == IF ctxPc = "returned" THEN Lines(result_str.s) ELSE << >>

\* The positions of its log lines and of its trace lines.
C15_LogAt == {i \in 1..Len(C15_Lines) : StartsWith(C15_Lines[i], STR.dash_ns)}
C15_TraceAt == {i \in 1..Len(C15_Lines) : StartsWith(C15_Lines[i], STR.dash_trace)}

\* The limit an environment variable sets: its integer value, 10 when it is
\* unset or no integer.
C15_Limit(v) ==
  IF v = None THEN 10
  ELSE IF IsDigits(v.s) THEN Num(v.s)
  ELSE IF v.s = STR.minus_one THEN -1
  ELSE 10

C16_TwoPairRun ==
  /\ ctxPc = "returned"
  /\ backend = "perpair"
  /\ korrel8r_enabled
  /\ {pairs[i] : i \in 1..Len(pairs)}
       = {NamespacePodPair(PStr(STR.prod), PStr(STR.svc1)), NamespacePodPair(PStr(STR.dev), None)}
  /\ env = [MAX_NUM_LOG_ROWS |-> None, MAX_NUM_TRACE_SPANS |-> None,
            INJECT_VLLM_ERROR_LOG_MSG |-> None]

\* The context of the run that takes (prod, svc-1) first.
C16_ProdFirst ==
  /\ Len(Lines(result_str.s)) = 4
  /\ Lines(result_str.s)[1] = STR.oom_line
  /\ Lines(result_str.s)[2] = STR.oom_line_dev
  /\ StartsWith(Lines(result_str.s)[3], STR.trace_abc)
  /\ StartsWith(Lines(result_str.s)[4], STR.trace_def)

\* C16 as claimed: the returned text is the same for every order in which the
\* pair set is iterated; for the pair set {(prod, svc-1), (dev, -)} every run
\* returns what the run that takes (prod, svc-1) first returns.
C16_SameContextInEveryPairOrder ==
  C16_TwoPairRun => C16_ProdFirst

\* What the run that takes (prod, svc-1) first returns.
C16_ProdFirstRun ==
  (C16_TwoPairRun /\ pairs[1] = NamespacePodPair(PStr(STR.prod), PStr(STR.svc1)))
    => C16_ProdFirst

\* What the run that takes (dev, -) first returns: the same lines with the two
\* log lines exchanged and the two trace lines exchanged.
C16_DevFirstRun ==
  (C16_TwoPairRun /\ pairs[1] = NamespacePodPair(PStr(STR.dev), None))
    => /\ Len(Lines(result_str.s)) = 4
       /\ Lines(result_str.s)[1] = STR.oom_line_dev
       /\ Lines(result_str.s)[2] = STR.oom_line
       /\ StartsWith(Lines(result_str.s)[3], STR.trace_def)
       /\ StartsWith(Lines(result_str.s)[4], STR.trace_abc)

\* The position, among the submitted trace IDs, of the fetch that gave a
\* returned detail (the details of different IDs differ).
C17_TaskOf(detail) == CHOOSE i \in DOMAIN tasks : tasks[i].result = detail

\* C17 as claimed: the details one batch fetch returns stand in the order in
\* which their fetches completed.
C17_DetailsInCompletionOrder ==
  batchPc = "returned"
    => \A a, b \in 1..Len(filtered) :
          a < b => tasks[C17_TaskOf(filtered[a])].done_at
                     < tasks[C17_TaskOf(filtered[b])].done_at

\* C17 amended: the details one batch fetch returns stand in the order of the
\* submitted trace IDs, whatever the order in which their fetches completed.
C17_DetailsInSubmissionOrder ==
  batchPc = "returned"
    => /\ \A a, b \in 1..Len(filtered) :
            a < b => C17_TaskOf(filtered[a]) < C17_TaskOf(filtered[b])
       /\ \A a \in 1..Len(filtered) :
            Get(filtered[a].d.trace.d.data.items[1], "traceID")
              = PStr(trace_ids[C17_TaskOf(filtered[a])])

\* C17 witness: a batch of three IDs returned three details of which the one of
\* the third ID completed first and the one of the first ID last.
C17_Witness ==
  /\ batchPc = "returned"
  /\ Len(trace_ids) = 3
  /\ Len(filtered) = 3
  /\ tasks[3].done_at = 1
  /\ tasks[1].done_at = 3
  /\ filtered[1] = tasks[1].result

\* C18 as claimed: during one build_correlated_context_from_metrics call no
\* trace ID is detail-fetched more than once, also when the queries of two
\* different pairs yield it.
C18_OneDetailFetchPerTraceIdAcrossPairs ==
  ctxPc \in {"pair", "aggregating", "returned"}
    => \A tid \in DOMAIN detailCalls : detailCalls[tid] <= 1

\* What the code keeps across pairs: a trace ID is detail-fetched at most once
\* for each pair whose aggregation was started.
C18_OneDetailFetchPerPair ==
  ctxPc \in {"pair", "aggregating", "returned"}
    => \A tid \in DOMAIN detailCalls :
          detailCalls[tid] <= Cardinality({i \in 1..Len(pairs) :
                                             /\ i <= pidx
                                             /\ Truthy(pairs[i].namespace)})

\* With the flag off correlate_alert returns the disabled marker without calling
\* find_related, and build_correlated_context_from_metrics returns "" without
\* calling fetch_goal_query_objects.
C19_ServiceAndContextShortCircuit ==
  ~korrel8r_enabled
    => /\ fn = "correlate_alert"
            => /\ "find_related" \notin fnCalls
               /\ fnRet # None => /\ IsDict(fnRet)
                                  /\ Get(fnRet, "error") = PStr(STR.KORREL8R_DISABLED)
       /\ fn = "none"
            => /\ aggPc = "idle"
               /\ detailCalls = << >>
               /\ ctxPc = "returned" => result_str = PStr(STR.empty)

\* C19 as claimed: with the flag off no entry point attempts a network call;
\* beside the two above, korrel8r_get_correlated calls neither list_goals nor
\* query_objects.
C19_NoNetworkCallWhenDisabled ==
  /\ C19_ServiceAndContextShortCircuit
  /\ (~korrel8r_enabled /\ fn = "korrel8r_get_correlated")
       => /\ aggPc \in {"idle", "called"}
          /\ goals_result = None
          /\ executed = {}

\* C20 as claimed: with the flag on correlate_alert never raises; it returns
\* the KORREL8R_REQUEST_FAILED error value or the normalized structure whose
\* results holds the four keys, each a list.
C20_CorrelateAlertNeverRaises ==
  (fn = "correlate_alert" /\ korrel8r_enabled /\ fnRet # None)
    => /\ IsDict(fnRet)
       /\ \/ Get(fnRet, "error") = PStr(STR.KORREL8R_REQUEST_FAILED)
          \/ /\ IsDict(Get(fnRet, "results"))
             /\ DOMAIN fnRet.d.results.d = ResultKeys
             /\ \A key \in ResultKeys : IsList(fnRet.d.results.d[key])
             /\ "meta" \in DOMAIN fnRet.d

\* What correlate_alert does with the flag on: it returns the error value or
\* the four-key structure, or it raises AttributeError.
C20_NormalizedOrAttributeError ==
  (fn = "correlate_alert" /\ korrel8r_enabled /\ fnRet # None)
    => \/ fnRet = Raise("AttributeError")
       \/ /\ IsDict(fnRet)
          /\ \/ Get(fnRet, "error") = PStr(STR.KORREL8R_REQUEST_FAILED)
             \/ /\ IsDict(Get(fnRet, "results"))
                /\ DOMAIN fnRet.d.results.d = ResultKeys

\* C21: calling fetch_goal_query_objects twice with the same goals and query
\* against a deterministic backend ends the second call as the first (returned
\* or raised), with the same bucket contents, and issues the same
\* get_trace_details calls again (every trace ID has been fetched twice as often
\* as after the first call); each call starts with empty buckets and an empty
\* seen-set.
C21_SecondCallRepeatsFirst ==
  /\ (fn = "fetch_goal_query_objects" /\ aggPc = "called")
       => /\ seen_trace_ids = {}
          /\ aggregated = [logs |-> << >>, traces |-> << >>]
  /\ (fn = "fetch_goal_query_objects" /\ fnRet # None /\ aggPc \in {"returned", "raised"})
       => /\ aggPc = fnRet.pc
          /\ aggPc = "returned" => aggregated = fnRet.aggregated
          /\ DOMAIN detailCalls = DOMAIN fnRet.calls
          /\ \A tid \in DOMAIN detailCalls : detailCalls[tid] = 2 * fnRet.calls[tid]

\* The second call has returned logs and spans after the first call fetched
\* two traces, one of them met in two queries.
C21_Witness ==
  /\ fn = "fetch_goal_query_objects"
  /\ backend = "faulty"
  /\ fnRet # None
  /\ aggPc = "returned"
  /\ aggregated.logs # << >>
  /\ aggregated.traces # << >>
  /\ Cardinality(DOMAIN fnRet.calls) = 2
  /\ \A tid \in DOMAIN detailCalls : detailCalls[tid] = 2

\* C22: whatever fetch_goal_query_objects returns holds exactly the two
\* buckets logs and traces, each a list; when list_goals returned a value that
\* is no list both buckets are empty and no query was executed.
C22_BucketsAlwaysPresent ==
  aggPc = "returned"
    => /\ DOMAIN aggregated = {"logs", "traces"}
       /\ \A b \in DOMAIN aggregated : DOMAIN aggregated[b] = 1..Len(aggregated[b])
       /\ ~IsList(goals_result)
            => /\ aggregated = [logs |-> << >>, traces |-> << >>]
               /\ executed = {}

\* list_goals answered with a dict that wraps a goal list, and the call has
\* returned.
C22_Witness ==
  /\ aggPc = "returned"
  /\ IsDict(goals_result)
  /\ Truthy(Get(goals_result, "goals"))
  /\ aggregated = [logs |-> << >>, traces |-> << >>]

\* The run at hand is one over the pair set {(prod, svc-1), (dev, -)} against the
\* backend whose list_goals raises for dev, with the default environment.
C24_FailingPairRun ==
  /\ ctxPc = "returned"
  /\ backend = "faulty"
  /\ korrel8r_enabled
  /\ {pairs[i] : i \in 1..Len(pairs)}
       = {NamespacePodPair(PStr(STR.prod), PStr(STR.svc1)), NamespacePodPair(PStr(STR.dev), None)}
  /\ env = [MAX_NUM_LOG_ROWS |-> None, MAX_NUM_TRACE_SPANS |-> None,
            INJECT_VLLM_ERROR_LOG_MSG |-> None]

C25_Before(p, q) == p[1] < q[1] \/ (p[1] = q[1] /\ p[2] < q[2])

\* The batch fetch has been called and has not yet been collected.
C25_BatchActive == batchPc # "idle"

\* What C25 says of one step.
C25_Step ==
  /\ (seen_trace_ids' # seen_trace_ids)
       => (/\ aggPc = "query"
           /\ ~C25_BatchActive
           /\ seen_trace_ids \subseteq seen_trace_ids'
           /\ aggPc' = "fetching"
           /\ seen_trace_ids' \ seen_trace_ids
                = {trace_ids'[i] : i \in 1..Len(trace_ids')})
  /\ C25_BatchActive
       => (/\ seen_trace_ids' = seen_trace_ids
           /\ (<<idx, qidx, executed>>' = <<idx, qidx, executed>>
                 \/ ~C25_BatchActive'))
  /\ \A p \in executed' \ executed :
       /\ p = <<idx, qidx>>
       /\ \A q \in executed : C25_Before(q, p)

\* C25: the seen-set changes only in a step of the aggregation loop taken while
\* no batch is active, and it only grows; the IDs handed to a batch are in the
\* set when the batch starts; a batch is active only while the aggregation
\* waits for it, and while it is active the seen-set, the position of the loop
\* and the executed queries stay as they are; every query executed comes after
\* all queries executed before it in the order of list_goals.
C25_SeenSetWrittenBeforeBatch ==
  /\ [](C25_BatchActive
         => /\ aggPc = "fetching"
            /\ \A i \in 1..Len(trace_ids) : trace_ids[i] \in seen_trace_ids)
  /\ [][C25_Step]_vars

\* A second batch runs for the second query of a trace goal: the ID met in the
\* first query is in the seen-set and is not fetched again.
C25_Witness ==
  /\ batchPc = "running"
  /\ InFlight # {}
  /\ qidx = 2
  /\ seen_trace_ids = {TraceId(1), TraceId(2)}
  /\ trace_ids = <<TraceId(2)>>
  /\ Cardinality(executed) >= 2

\* The maximum of each bot as the claim gives it.
C23_L == IF fnArgs.bot = "llama" THEN 8000 ELSE 10000

\* C23: the content made of a tool result r is r when r has at most L
\* characters (8000 for Llama, 10000 for OpenAI and Gemini); otherwise it is
\* the first L characters of r followed by the truncation notice, L plus the
\* length of the notice in all.
C23_ToolResultTruncatedAtL ==
  (fn = "tool_result" /\ fnRet # None)
    => IF Len(fnArgs.tool_result.s) <= C23_L
       THEN fnRet = fnArgs.tool_result
       ELSE /\ Len(fnRet.s) = C23_L + Len(STR.truncated)
            /\ \A i \in 1..C23_L : fnRet.s[i] = fnArgs.tool_result.s[i]
            /\ \A j \in 1..Len(STR.truncated) : fnRet.s[C23_L + j] = STR.truncated[j]

\* The Llama bot has cut a result of 10000 characters.
C23_Witness ==
  /\ fn = "tool_result"
  /\ fnArgs.bot = "llama"
  /\ Len(fnArgs.tool_result.s) = 10000
  /\ fnRet # None
  /\ fnRet # fnArgs.tool_result
  /\ Len(fnRet.s) = 8000 + Len(STR.truncated)

\* The turn of completion r is a tool turn: OpenAI and Llama were told
\* finish_reason 'tool_calls' and got tool calls; Gemini got a function_call part.
C26_ToolTurn(r) ==
  /\ r.k = "completion"
  /\ r.tool_calls # << >>
  /\ chatBot = "google" \/ r.finish_reason = "tool_calls"

\* The text chat returns for the completion that ends the loop.
C26_Text(r) ==
  LET text == IF r.content = None THEN STR.empty ELSE r.content.s
  IN  IF chatBot = "openai" /\ text = STR.fenced_ok THEN STR.ok
      ELSE IF chatBot = "google" /\ text = STR.empty THEN STR.err_no_text
      ELSE text

C26_Safe ==
  /\ iteration <= MaxIterations(chatBot)
  /\ (chatPc = "loop" /\ iteration > 0) => C26_ToolTurn(response)
  /\ chatPc = "returned" =>
       /\ final_response.k = "str"
       /\ IF iteration = 0
          THEN final_response.s \in {STR.err_sdk, STR.err_api_key}
          ELSE IF IsRaise(response)
          THEN final_response.s \in {STR.err_tool_calling, STR.err_gemini}
          ELSE IF response.k = "no_candidates"
          THEN final_response.s = STR.err_no_candidates
          ELSE IF C26_ToolTurn(response)
          THEN iteration = MaxIterations(chatBot) /\ final_response.s = STR.incomplete
          ELSE final_response.s = C26_Text(response)

C27_ToolMessagesAnswerACall(msgs) ==
  \A i \in 1..Len(msgs) :
     msgs[i].role = "tool" =>
       \E j \in 1..(i - 1) :
          /\ msgs[j].role = "assistant"
          /\ \E c \in 1..Len(msgs[j].tool_calls) : msgs[j].tool_calls[c] = msgs[i].tool_call_id

\* C27: the message list the OpenAI and Llama loops send to the model begins
\* with the system prompt, holds at most 10 messages, and every tool message in
\* it is preceded by the assistant message that requested it.
C27_SentMessagesWellFormed ==
  (chatBot \in {"openai", "llama"} /\ chatPc = "loop") =>
     /\ messages[1].role = "system"
     /\ Len(messages) <= 10
     /\ C27_ToolMessagesAnswerACall(messages)

\* The threads inside load_runtime_model_config or about to store what it gave.
C28_Loading == {t \in Threads : cfgPc[t] \in {"load", "create", "store"}}

\* The cache is fresh for a call without force_refresh: filled, and refreshed
\* no more than 60 seconds before the clock reading of the call.
C28_Fresh(t) ==
  /\ ~cfgLocal[t].force_refresh
  /\ runtime_config # None
  /\ config_last_updated # None
  /\ clock - config_last_updated.n <= 60

C28_Step ==
  \A t \in Threads :
     /\ (cfgPc[t] = "acquire" /\ cfgPc'[t] # "acquire") =>
          IF C28_Fresh(t)
          THEN /\ cfgPc'[t] = "idle"
               /\ cfgLocal'[t].loads = 0
               /\ cfgLocal'[t].result = runtime_config
               /\ runtime_config' = runtime_config
               /\ config_last_updated' = config_last_updated
          ELSE cfgPc'[t] = "load" /\ config_lock' = t
     /\ (cfgPc[t] = "store" /\ cfgPc'[t] = "idle") =>
          /\ cfgLocal[t].loads = 1
          /\ cfgLocal'[t].result = cfgLocal[t].loaded
          /\ runtime_config' = cfgLocal[t].loaded

C29_CreatesOnlyWhenConfigMapMissing ==
  \A t \in Threads :
     /\ cfgLocal[t].create # "none" => cfgLocal[t].read = "status_404"
     /\ (cfgLocal[t].read = "status_200" /\ cfgPc[t] = "store") =>
          cfgLocal[t].loaded = configmap

\* C30: when both add_model_to_config calls have reported success, the
\* ConfigMap holds both model keys and every key either call read.
C30_NoAdditionLost ==
  (\A t \in Threads : cfgPc[t] = "done" /\ cfgLocal[t].success) =>
     /\ configmap.k = "dict"
     /\ \A t \in Threads : cfgLocal[t].current_config.keys \subseteq configmap.keys

=============================================================================
